---- MODULE Spec2Model ----
(***************************************************************************)
(* A model of the fymo resolution-compilation-execution pipeline:          *)
(* Router, NPMBundler, ComponentResolver, SvelteCompiler, JSRuntime and    *)
(* TemplateRenderer.                                                       *)
(*                                                                         *)
(* Strings are sequences of tokens.  The tokens "/", ":" and "." are the   *)
(* characters of that name; every other token is a run of word characters  *)
(* that contains none of them, so that splitting, stripping and searching  *)
(* for those characters on token sequences is what the code does on        *)
(* characters.                                                             *)
(***************************************************************************)
EXTENDS Integers, Sequences, FiniteSets, TLC

VARIABLES
    routes,          \* Router.routes: insertion-ordered dict, a sequence of [pattern, info]
    resources,       \* Router.resources
    adds,            \* add_route calls made so far
    matchCalled,     \* whether Router.match has been called
    matchPath,       \* argument of the last Router.match call
    matchResult,     \* what that call returned
    files,           \* the component files on disk: path -> source
    bundlable,       \* the (package, target) pairs esbuild succeeds for (node_modules)
    setOrder,        \* this process's iteration order of a set of package names
    component_cache, \* ComponentResolver.component_cache
    dependency_graph,\* ComponentResolver.dependency_graph
    bundle_cache,    \* NPMBundler.bundle_cache
    runs,            \* esbuild invocations so far, per cache key
    hits,            \* bundle-cache hits so far, per cache key
    calls,           \* resolve_imports / bundle_npm_packages calls made so far
    writes,          \* file writes made so far
    lastOp,          \* the operation of the last step
    lastArgs,        \* the arguments of the last call
    lastResult,      \* what the last call returned or raised
    repeated,        \* the last call repeated the call before it, nothing in between
    orchestrator,    \* the class serving requests: TemplateRenderer or FymoApp
    controller_module, \* the controller module of the route, as the project has it
    compilerSsr,     \* what the Svelte compiler does for the ssr target
    compilerDom,     \* what the Svelte compiler does for the dom target
    engine,          \* what the V8 context does when asked to render
    compiled_components, \* asset registry: compiled client components
    extracted_css,   \* asset registry: extracted style sheets
    renders,         \* requests rendered so far
    reqPath,         \* the path of the last request
    response,        \* the (html, status) pair the last render returned
    stages,          \* the stages the last render went through, with their outcomes
    ssrArtifact,     \* what compile_ssr returned in the last render
    runtime_file,    \* whether bundler/js/dist/svelte-server-runtime.js can be read
    runtime_code,    \* JSRuntime.runtime_code: unset before construction
    runtime_exc,     \* the exception the constructor of JSRuntime raised
    open_contexts,   \* V8 contexts entered and not yet left
    lastCtx,         \* the context of the last render_component call, as it was left
    rtCalls,         \* render_component calls made so far
    rtArgs,          \* the arguments of the last render_component call
    rtResult,        \* what the last render_component call returned
    firstResult,     \* (engine, compiled js, props) -> what the first such call returned
    guestWrote,      \* the globals guest code has set in any context so far
    temp_files,      \* the temporary entry files present in the project directories
    toolCalls,       \* direct compile and _bundle_single_package calls made so far
    toolOp,          \* which of the two the last such call was
    toolSrc,         \* the source handed to the last compile call
    toolBehaviour,   \* what the toolchain process did in that call
    toolResult,      \* what that call returned or raised
    pageCalls,       \* _generate_html_page calls made so far
    pageArgs,        \* the arguments of the last such call
    pageHtml,        \* the document it returned
    headCalls,       \* _add_custom_scripts calls made so far
    headArgs,        \* the custom scripts of the last such call
    headParts,       \* the head lines it appended
    invCalls,        \* invalidate_cache_for_file calls made so far
    invPath,         \* the path of the last such call
    invBefore,       \* component cache and dependency graph before it
    skPhase,         \* how far the two compiles of one source have come
    skSrc,           \* the source both compiles are given
    skSsr,           \* imported components submitted to the ssr compile
    skDom,           \* imported components submitted to the dom compile
    hyCalls,         \* _compile_for_hydration calls made so far
    hyArgs,          \* source and template of the last such call
    hyBefore,        \* the asset registries before it
    hyResult,        \* what it returned or raised
    hyStored,        \* the templates a browser artifact was stored for
    hyOwner,         \* registry key -> the template it was last written for
    rcPc,            \* where each concurrent request stands in _bundle_single_package
    rcArgs,          \* the (package, target) each of them asked for
    rcCode           \* the bundle text each of them holds or returned

routerVars == <<routes, resources, adds, matchCalled, matchPath, matchResult>>

resolverVars ==
    <<files, bundlable, setOrder, component_cache, dependency_graph, bundle_cache,
      runs, hits, calls, writes, lastOp, lastArgs, lastResult, repeated>>

renderVars ==
    <<orchestrator, controller_module, compilerSsr, compilerDom, engine, compiled_components,
      extracted_css, renders, reqPath, response, stages, ssrArtifact>>

runtimeVars ==
    <<runtime_file, runtime_code, runtime_exc, open_contexts, lastCtx, rtCalls, rtArgs,
      rtResult, firstResult, guestWrote>>

toolVars == <<temp_files, toolCalls, toolOp, toolSrc, toolBehaviour, toolResult>>

pageVars == <<pageCalls, pageArgs, pageHtml>>

headVars == <<headCalls, headArgs, headParts>>

invVars == <<invCalls, invPath, invBefore>>

skewVars == <<skPhase, skSrc, skSsr, skDom>>

hydrateVars == <<hyCalls, hyArgs, hyBefore, hyResult, hyStored, hyOwner>>

raceVars == <<rcPc, rcArgs, rcCode>>

lateVars == <<headVars, invVars, skewVars, hydrateVars, raceVars>>

unitVars == <<runtimeVars, toolVars, pageVars, lateVars>>

vars == <<routerVars, resolverVars, renderVars, unitVars>>

----------------------------------------------------------------------------
(* Bounds *)

MaxSegs == 3         \* request paths have at most this many segments
MaxAdds == 1         \* add_route calls after construction
MaxCalls == 2        \* resolve_imports / bundle_npm_packages calls
MaxWrites == 1       \* file writes between calls
MaxRenders == 1      \* requests rendered
MaxRtCalls == 2      \* render_component calls on one runtime
MaxToolCalls == 2    \* direct compile and _bundle_single_package calls
MaxPages == 1        \* _generate_html_page calls
MaxHeadCalls == 1    \* _add_custom_scripts calls
MaxInvalidations == 1  \* invalidate_cache_for_file calls
MaxHydrations == 2   \* _compile_for_hydration calls
MaxThreads == 2      \* requests running _bundle_single_package at the same time
RecursionLimit == 4  \* nested resolve_imports frames before RecursionError

----------------------------------------------------------------------------
(* String helpers *)

Range(s) == {s[i] : i \in 1..Len(s)}

RECURSIVE SplitOn(_, _)
\* str.split(sep): the parts between the separators; ''.split(sep) is ['']
SplitOn(s, sep) ==
    IF \A i \in 1..Len(s) : s[i] # sep
    THEN <<s>>
    ELSE LET k == CHOOSE i \in 1..Len(s) :
                      s[i] = sep /\ \A j \in 1..(i - 1) : s[j] # sep
         IN  <<SubSeq(s, 1, k - 1)>> \o SplitOn(SubSeq(s, k + 1, Len(s)), sep)

RECURSIVE StripChar(_, _)
\* str.strip(c): drop every leading and trailing c
StripChar(s, c) ==
    IF Len(s) > 0 /\ s[1] = c THEN StripChar(Tail(s), c)
    ELSE IF Len(s) > 0 /\ s[Len(s)] = c THEN StripChar(SubSeq(s, 1, Len(s) - 1), c)
    ELSE s

RECURSIVE Concat(_)
Concat(ss) == IF ss = <<>> THEN <<>> ELSE Head(ss) \o Concat(Tail(ss))

----------------------------------------------------------------------------
(* Router (src/fymo/core/router.py) *)

Str(w) == <<w>>

Info(controller, action, template) ==
    [controller |-> controller, action |-> action, template |-> template]

\* f"{controller}/{action}.svelte"
TemplateOf(controller, action) == controller \o <<"/">> \o action \o <<".svelte">>

NoRoute ==
    [found |-> FALSE, controller |-> <<>>, action |-> <<>>, template |-> <<>>,
     hasParams |-> FALSE, params |-> {}]

\* a route-info dict as match returns it; params is absent unless a pattern matched
Found(info, hasParams, params) ==
    [found |-> TRUE, controller |-> info.controller, action |-> info.action,
     template |-> info.template, hasParams |-> hasParams, params |-> params]

HasKey(tbl, p) == \E i \in 1..Len(tbl) : tbl[i].pattern = p

Lookup(tbl, p) == tbl[CHOOSE i \in 1..Len(tbl) : tbl[i].pattern = p].info

\* self.routes[p] = info: an existing key keeps its place in the iteration order
Put(tbl, p, info) ==
    IF HasKey(tbl, p)
    THEN [i \in 1..Len(tbl) |->
            IF tbl[i].pattern = p THEN [pattern |-> p, info |-> info] ELSE tbl[i]]
    ELSE Append(tbl, [pattern |-> p, info |-> info])

ExpandOne(tbl, r) ==
    LET t1 == Put(tbl, <<"/">> \o r, Info(r, Str("index"), TemplateOf(r, Str("index"))))
        t2 == Put(t1, <<"/">> \o r \o <<"/", ":", "id">>,
                  Info(r, Str("show"), TemplateOf(r, Str("show"))))
        t3 == Put(t2, <<"/">> \o r \o <<"/", ":", "id", "/", "edit">>,
                  Info(r, Str("edit"), TemplateOf(r, Str("edit"))))
    IN  Put(t3, <<"/">> \o r \o <<"/", "new">>,
            Info(r, Str("new"), TemplateOf(r, Str("new"))))

RECURSIVE ExpandResources(_, _)
ExpandResources(tbl, res) ==
    IF res = <<>> THEN tbl ELSE ExpandResources(ExpandOne(tbl, Head(res)), Tail(res))

\* controller, action = value.split('.')
InfoOfDotted(value) ==
    LET parts == SplitOn(value, ".")
    IN  Info(parts[1], parts[2], TemplateOf(parts[1], parts[2]))

RECURSIVE LoadExplicit(_, _)
LoadExplicit(tbl, entries) ==
    IF entries = <<>> THEN tbl
    ELSE LET e == Head(entries)
         IN  LoadExplicit(
                 Put(tbl, e.key, IF e.isStr THEN InfoOfDotted(e.value) ELSE e.dict),
                 Tail(entries))

\* the table and resource list a YAML configuration leaves behind
LoadYamlRoutes(cfg) ==
    LET t0 == IF cfg.hasRoot THEN Put(<<>>, <<"/">>, InfoOfDotted(cfg.root)) ELSE <<>>
        t1 == IF cfg.hasResources THEN ExpandResources(t0, cfg.resources) ELSE t0
    IN  [routes |-> LoadExplicit(t1, cfg.explicit),
         resources |-> IF cfg.hasResources THEN cfg.resources ELSE <<>>]

\* the table and resource list a Python routes module leaves behind
LoadPythonRoutes(cfg) ==
    [routes |-> IF cfg.hasResources THEN ExpandResources(cfg.routes, cfg.resources)
                ELSE cfg.routes,
     resources |-> IF cfg.hasResources THEN cfg.resources ELSE <<>>]

\* the characters re.escape (CPython 3.7 and later) puts a backslash before;
\* '/', ':' and word characters are not among them
ReMeta == {".", "^", "$", "*", "+", "?", "{", "}", "[", "]", "\\", "|", "(", ")",
           "-", "#", "&", "~", " "}

ReEscapes(tok) == tok \in ReMeta

\* re.escape(route_pattern)
ReEscape(p) == [i \in 1..Len(p) |-> [tok |-> p[i], esc |-> ReEscapes(p[i])]]

IsWord(tok) == tok \notin ReMeta \cup {"/", ":"}

RECURSIVE WordRun(_, _)
\* how many word atoms (\w+) start at position i of an escaped pattern
WordRun(e, i) ==
    IF i <= Len(e) /\ IsWord(e[i].tok) /\ ~e[i].esc THEN 1 + WordRun(e, i + 1) ELSE 0

RECURSIVE ReSubParams(_, _)
\* re.sub(r'\\:(\w+)', r'(?P<\1>[^/]+)', pattern): a backslash-escaped colon followed
\* by word characters becomes a named group; everything else stays literal
ReSubParams(e, i) ==
    IF i > Len(e) THEN <<>>
    ELSE IF e[i].tok = ":" /\ e[i].esc /\ WordRun(e, i + 1) > 0
    THEN LET n == WordRun(e, i + 1)
         IN  <<[group |-> TRUE, tok |-> "",
                name |-> [k \in 1..n |-> e[i + k].tok]]>> \o ReSubParams(e, i + 1 + n)
    ELSE <<[group |-> FALSE, tok |-> e[i].tok, name |-> <<>>]>> \o ReSubParams(e, i + 1)

NoMatch == [ok |-> FALSE, params |-> {}]

RECURSIVE NonSlashRun(_, _)
NonSlashRun(s, j) == IF j <= Len(s) /\ s[j] # "/" THEN 1 + NonSlashRun(s, j + 1) ELSE 0

RECURSIVE ReMatchFrom(_, _, _, _), ReTryGroup(_, _, _, _, _)
\* re.match('^' + pattern + '$', path) from atom i of the pattern and position j of
\* the path; a group takes the longest run of non-slash characters that lets the
\* rest match
ReMatchFrom(rx, i, s, j) ==
    IF i > Len(rx) THEN (IF j > Len(s) THEN [ok |-> TRUE, params |-> {}] ELSE NoMatch)
    ELSE IF ~rx[i].group
    THEN (IF j <= Len(s) /\ s[j] = rx[i].tok THEN ReMatchFrom(rx, i + 1, s, j + 1)
          ELSE NoMatch)
    ELSE ReTryGroup(rx, i, s, j, NonSlashRun(s, j))

ReTryGroup(rx, i, s, j, k) ==
    IF k < 1 THEN NoMatch
    ELSE LET rest == ReMatchFrom(rx, i + 1, s, j + k)
         IN  IF rest.ok
             THEN [ok |-> TRUE,
                   params |-> {b \in rest.params : b[1] # rx[i].name}
                              \cup {<<rx[i].name, SubSeq(s, j, j + k - 1)>>}]
             ELSE ReTryGroup(rx, i, s, j, k - 1)

PatternMatch(route_pattern, path) ==
    ReMatchFrom(ReSubParams(ReEscape(route_pattern), 1), 1, path, 1)

\* path normalisation at the top of match
NormalizePath(path) ==
    IF path # <<"/">> /\ Len(path) > 0 /\ path[Len(path)] = "/"
    THEN SubSeq(path, 1, Len(path) - 1)
    ELSE path

TryConventionMutant(path) ==
    IF path = <<"/">>
    THEN Found(Info(Str("home"), Str("index"), TemplateOf(Str("home"), Str("index"))),
               FALSE, {})
    ELSE LET parts == SplitOn(StripChar(path, "/"), "/")
         IN  IF Len(parts) = 1
             THEN Found(Info(parts[1], Str("index"), TemplateOf(parts[1], Str("index"))),
                        FALSE, {})
             ELSE Found(Info(parts[1], parts[2], TemplateOf(parts[1], parts[2])),
                        FALSE, {})

\* Router._try_convention_based_routing
TryConvention(path) ==
    IF path = <<"/">>
    THEN Found(Info(Str("home"), Str("index"), TemplateOf(Str("home"), Str("index"))),
               FALSE, {})
    ELSE LET parts == SplitOn(StripChar(path, "/"), "/")
         IN  IF Len(parts) = 1
             THEN Found(Info(parts[1], Str("index"), TemplateOf(parts[1], Str("index"))),
                        FALSE, {})
             ELSE IF Len(parts) = 2
             THEN Found(Info(parts[1], parts[2], TemplateOf(parts[1], parts[2])),
                        FALSE, {})
             ELSE NoRoute

\* the first route, in table order, that has a ':' and whose pattern matches
FirstPatternHit(tbl, path) ==
    LET found == {i \in 1..Len(tbl) :
                    ":" \in Range(tbl[i].pattern) /\ PatternMatch(tbl[i].pattern, path).ok}
    IN  IF found = {} THEN 0 ELSE CHOOSE i \in found : \A j \in found : i <= j

DirectMatchMutant(tbl, path) == HasKey(tbl, path) /\ Len(path) < 2

\* 'path in self.routes'
DirectMatch(tbl, path) == HasKey(tbl, path)

\* Router.match
Match(tbl, res, rawPath) ==
    LET path == NormalizePath(rawPath)
        hit  == FirstPatternHit(tbl, path)
        parts == SplitOn(StripChar(path, "/"), "/")
    IN  IF DirectMatch(tbl, path) THEN Found(Lookup(tbl, path), FALSE, {})
        ELSE IF hit # 0
        THEN Found(tbl[hit].info, TRUE, PatternMatch(tbl[hit].pattern, path).params)
        ELSE IF parts[1] \in Range(res) /\ Len(parts) = 1
        THEN Found(Info(parts[1], Str("index"), TemplateOf(parts[1], Str("index"))),
                   FALSE, {})
        ELSE TryConvention(path)

\* Router.add_route; template is <<>> when the caller passes none
AddRouteTo(tbl, path, controller, action, template) ==
    Put(tbl, path,
        Info(controller, action,
             IF template = <<>> THEN TemplateOf(controller, action) ELSE template))

----------------------------------------------------------------------------
(* The state of a subsystem a specification leaves alone *)

NoResult == [exc |-> "none", src |-> <<>>, comps |-> {}, pkgs |-> {}]

NoArgs == [src |-> <<>>, target |-> ""]

ResolverIdle ==
    /\ files = {}
    /\ bundlable = {}
    /\ setOrder = <<>>
    /\ component_cache = {}
    /\ dependency_graph = {}
    /\ bundle_cache = {}
    /\ runs = {}
    /\ hits = {}
    /\ calls = 0
    /\ writes = 0
    /\ lastOp = "none"
    /\ lastArgs = NoArgs
    /\ lastResult = NoResult
    /\ repeated = FALSE

NoResponse == [html |-> <<>>, status |-> ""]

NoArtifact == [success |-> FALSE, hasError |-> FALSE, error |-> <<>>, js |-> <<>>, css |-> <<>>]

NoController == [kind |-> "missing", props |-> <<>>]

RenderIdle ==
    /\ orchestrator = "TemplateRenderer"
    /\ controller_module = NoController
    /\ compilerSsr = "ok"
    /\ compilerDom = "ok"
    /\ engine = "ok"
    /\ compiled_components = {}
    /\ extracted_css = {}
    /\ renders = 0
    /\ reqPath = <<>>
    /\ response = NoResponse
    /\ stages = <<>>
    /\ ssrArtifact = NoArtifact

NewContext == [globals |-> {}, errors |-> <<>>]

NoRender == [hasError |-> FALSE, error |-> <<>>, html |-> <<>>]

NoRenderArgs == [compiled_js |-> <<>>, props |-> <<>>, engine |-> "ok"]

RuntimeIdle ==
    /\ runtime_file = TRUE
    /\ runtime_code = "unset"
    /\ runtime_exc = "none"
    /\ open_contexts = 0
    /\ lastCtx = NewContext
    /\ rtCalls = 0
    /\ rtArgs = NoRenderArgs
    /\ rtResult = NoRender
    /\ firstResult = {}
    /\ guestWrote = {}

NoToolResult == [exc |-> "none", msg |-> <<>>, artifact |-> NoArtifact]

ToolIdle ==
    /\ temp_files = {}
    /\ toolCalls = 0
    /\ toolOp = "none"
    /\ toolSrc = <<>>
    /\ toolBehaviour = "none"
    /\ toolResult = NoToolResult

NoPageArgs == [content |-> <<>>, props |-> <<>>, hydration_js |-> <<>>]

PageIdle ==
    /\ pageCalls = 0
    /\ pageArgs = NoPageArgs
    /\ pageHtml = <<>>

HeadIdle ==
    /\ headCalls = 0
    /\ headArgs = <<>>
    /\ headParts = <<>>

InvIdle ==
    /\ invCalls = 0
    /\ invPath = <<>>
    /\ invBefore = [component_cache |-> {}, dependency_graph |-> {}]

SkewIdle ==
    /\ skPhase = "idle"
    /\ skSrc = <<>>
    /\ skSsr = {}
    /\ skDom = {}

HydrateIdle ==
    /\ hyCalls = 0
    /\ hyArgs = [src |-> <<>>, template |-> <<>>]
    /\ hyBefore = [compiled_components |-> {}, extracted_css |-> {}]
    /\ hyResult = [exc |-> "none", js |-> <<>>]
    /\ hyStored = {}
    /\ hyOwner = {}

Threads == 1..MaxThreads

RaceIdle ==
    /\ rcPc = [t \in Threads |-> "idle"]
    /\ rcArgs = [t \in Threads |-> <<>>]
    /\ rcCode = [t \in Threads |-> <<>>]

LateIdle == HeadIdle /\ InvIdle /\ SkewIdle /\ HydrateIdle /\ RaceIdle

UnitIdle == RuntimeIdle /\ ToolIdle /\ PageIdle /\ LateIdle

RouterIdle ==
    /\ routes = <<>>
    /\ resources = <<>>
    /\ adds = 0
    /\ matchCalled = FALSE
    /\ matchPath = <<>>
    /\ matchResult = NoRoute

----------------------------------------------------------------------------
(* Router: configurations, request paths and the specification SpecRouter *)

Posts == Str("posts")
Users == Str("users")

ResourceLists == {<<>>, <<Posts>>, <<Users, Posts>>}

ExplicitLists ==
    {<<>>,
     <<[key |-> <<"/", "about">>, isStr |-> TRUE, value |-> <<"pages", ".", "about">>,
        dict |-> Info(<<>>, <<>>, <<>>)]>>,
     <<[key |-> <<"/", "posts", "/", "new">>, isStr |-> FALSE, value |-> <<>>,
        dict |-> Info(Str("drafts"), Str("create"),
                      <<"drafts", "/", "create", ".svelte">>)]>>}

YamlConfigs ==
    {[kind |-> "yaml", hasRoot |-> hr, root |-> <<"home", ".", "index">>,
      hasResources |-> rs # <<>>, resources |-> rs, explicit |-> ex, routes |-> <<>>] :
        hr \in {TRUE}, rs \in ResourceLists, ex \in ExplicitLists}

PythonConfigs ==
    {[kind |-> "py", hasRoot |-> FALSE, root |-> <<>>,
      hasResources |-> rs # <<>>, resources |-> rs, explicit |-> <<>>, routes |-> rt] :
        rs \in {<<>>, <<Posts>>},
        rt \in {<<>>,
                <<[pattern |-> <<"/", ":", "section", "/", ":", "page">>,
                   info |-> Info(Str("pages"), Str("show"),
                                 <<"pages", "/", "show", ".svelte">>)]>>}}

RouterConfigs == YamlConfigs \cup PythonConfigs

\* Router.__init__
NewRouter(cfg) ==
    IF cfg.kind = "py" THEN LoadPythonRoutes(cfg) ELSE LoadYamlRoutes(cfg)

SegWords == {Str("posts"), Str("5"), Str("new"), Str("edit")}

RECURSIVE SegListsOf(_)
SegListsOf(n) ==
    IF n = 0 THEN {<<>>}
    ELSE SegListsOf(n - 1)
         \cup {Append(l, w) : l \in {x \in SegListsOf(n - 1) : Len(x) = n - 1},
                               w \in SegWords}

SegLists == SegListsOf(MaxSegs)

RECURSIVE JoinSegs(_)
\* '/' + '/'.join(segs)
JoinSegs(segs) ==
    IF segs = <<>> THEN <<"/">>
    ELSE IF Len(segs) = 1 THEN <<"/">> \o segs[1]
    ELSE JoinSegs(SubSeq(segs, 1, Len(segs) - 1)) \o <<"/">> \o segs[Len(segs)]

OddPaths == {<<>>, <<"/", "posts", "/", "/", "5">>, <<"posts">>, <<"/", "posts", "/", ":", "id">>}

RequestPaths ==
    {JoinSegs(l) : l \in SegLists} \cup {JoinSegs(l) \o <<"/">> : l \in SegLists}
    \cup OddPaths

AddPaths ==
    {<<"/", "about">>, <<"/", "posts", "/", "5", "/">>, <<"/", "posts", "/", ":", "id">>}

InitRouter ==
    \E cfg \in RouterConfigs :
        /\ routes = NewRouter(cfg).routes
        /\ resources = NewRouter(cfg).resources
        /\ adds = 0
        /\ matchCalled = FALSE
        /\ matchPath = <<>>
        /\ matchResult = NoRoute
        /\ ResolverIdle
        /\ RenderIdle
        /\ UnitIdle

AddRoute ==
    /\ adds < MaxAdds
    /\ \E path \in AddPaths, template \in {<<>>, <<"shared", "/", "page", ".svelte">>} :
          routes' = AddRouteTo(routes, path, Str("pages"), Str("about"), template)
    /\ adds' = adds + 1
    /\ matchCalled' = FALSE
    /\ matchPath' = <<>>
    /\ matchResult' = NoRoute
    /\ UNCHANGED <<resources, resolverVars, renderVars, unitVars>>

\* match only reads the table: one observed call per table state stands for all
DoMatch ==
    /\ ~matchCalled
    /\ \E path \in RequestPaths :
          /\ matchPath' = path
          /\ matchResult' = Match(routes, resources, path)
    /\ matchCalled' = TRUE
    /\ UNCHANGED <<routes, resources, adds, resolverVars, renderVars, unitVars>>

NextRouter == AddRoute \/ DoMatch

SpecRouter == InitRouter /\ [][NextRouter]_vars

----------------------------------------------------------------------------
(* Router claims *)

NoSegs == << <<"?">> >>

\* what the claims call a path's segments, read off its shape and not off the code
SegsOfPath(path) ==
    IF path = <<>> \/ path[1] # "/" THEN NoSegs
    ELSE IF path = <<"/">> THEN <<>>
    ELSE LET body == IF path[Len(path)] = "/" THEN SubSeq(path, 2, Len(path) - 1)
                     ELSE Tail(path)
         IN  IF \E k \in 1..Len(SplitOn(body, "/")) : SplitOn(body, "/")[k] = <<>>
             THEN NoSegs
             ELSE SplitOn(body, "/")

ActionOf(tbl, res, path) == Match(tbl, res, path).action

\* C4 as stated: for every registered resource r and every segment s other than
\* 'new', /r is index, /r/s is show with {id: s}, /r/s/edit is edit with {id: s},
\* and /r/new is new
C4_ResourceRoutesResolve ==
    \A k \in 1..Len(resources) :
        LET r == resources[k]
            base == <<"/">> \o r
        IN  /\ Match(routes, resources, base).found
            /\ ActionOf(routes, resources, base) = Str("index")
            /\ ActionOf(routes, resources, base \o <<"/", "new">>) = Str("new")
            /\ \A s \in {Str("5"), Str("edit")} :
                  /\ ActionOf(routes, resources, base \o <<"/">> \o s) = Str("show")
                  /\ Match(routes, resources, base \o <<"/">> \o s).params
                        = {<<Str("id"), s>>}
                  /\ ActionOf(routes, resources, base \o <<"/">> \o s \o <<"/", "edit">>)
                        = Str("edit")
                  /\ Match(routes, resources, base \o <<"/">> \o s \o <<"/", "edit">>).params
                        = {<<Str("id"), s>>}

ExactKeyReturned(i) ==
    Match(routes, resources, routes[i].pattern) = Found(routes[i].info, FALSE, {})

\* C5 as stated: every key of the route table without a ':name' segment is matched
\* to exactly the entry stored under it
C5_EveryExactKeyMatches ==
    \A i \in 1..Len(routes) : ":" \notin Range(routes[i].pattern) => ExactKeyReturned(i)

EndsWithSlash(p) == Len(p) > 0 /\ p[Len(p)] = "/"

\* C5 amended: every key without a ':name' segment that is '/' or does not end in
\* '/' is matched to exactly the entry stored under it, with no params attached
C5_ExactKeyWithoutTrailingSlashMatches ==
    \A i \in 1..Len(routes) :
        (/\ ":" \notin Range(routes[i].pattern)
         /\ (routes[i].pattern = <<"/">> \/ ~EndsWithSlash(routes[i].pattern)))
        => ExactKeyReturned(i)

C5_Witness ==
    /\ matchCalled
    /\ adds > 0
    /\ HasKey(routes, matchPath)
    /\ ":" \notin Range(matchPath)
    /\ matchPath # <<"/">>
    /\ matchResult = Found(Lookup(routes, matchPath), FALSE, {})

\* a pattern segment matches a path segment when they are equal or the pattern
\* segment is ':name' and the path segment is not empty
SegMatches(ps, s) == ps = s \/ (Len(ps) >= 2 /\ ps[1] = ":" /\ Len(s) > 0)

\* the table has an entry for the path, exactly or structurally
TableMatches(tbl, segs) ==
    \E i \in 1..Len(tbl) :
        \/ tbl[i].pattern = JoinSegs(segs)
        \/ LET psegs == SegsOfPath(tbl[i].pattern)
           IN  /\ psegs # NoSegs
               /\ Len(psegs) = Len(segs)
               /\ \A k \in 1..Len(segs) : SegMatches(psegs[k], segs[k])

ConventionFor(segs) ==
    IF Len(segs) = 0 THEN <<TRUE, Str("home"), Str("index")>>
    ELSE IF Len(segs) = 1 THEN <<TRUE, segs[1], Str("index")>>
    ELSE IF Len(segs) = 2 THEN <<TRUE, segs[1], segs[2]>>
    ELSE <<FALSE, <<>>, <<>>>>

\* C6: when no table entry matches the path, match answers by convention:
\* (home, index) for '/', (a, index) for '/a', (a, b) for '/a/b', and no route
\* for three or more segments
C6_ConventionFallback ==
    matchCalled =>
        LET segs == SegsOfPath(matchPath)
        IN  (segs # NoSegs /\ ~TableMatches(routes, segs))
            => <<matchResult.found, matchResult.controller, matchResult.action>>
                   = ConventionFor(segs)

C6_Witness ==
    /\ matchCalled
    /\ Len(routes) > 0
    /\ SegsOfPath(matchPath) # NoSegs
    /\ Len(SegsOfPath(matchPath)) = 3
    /\ ~TableMatches(routes, SegsOfPath(matchPath))
    /\ matchResult = NoRoute

----------------------------------------------------------------------------
(* Dictionaries are sets of <<key, value>> pairs with one pair per key *)

DHas(d, k) == \E e \in d : e[1] = k

DGet(d, k) == (CHOOSE e \in d : e[1] = k)[2]

DPut(d, k, v) == {e \in d : e[1] # k} \cup {<<k, v>>}

\* a counter kept per key, 0 until first counted
Count(d, k) == IF DHas(d, k) THEN DGet(d, k) ELSE 0

Incr(d, k) == DPut(d, k, Count(d, k) + 1)

DDel(d, k) == {e \in d : e[1] # k}

DKeys(d) == {e[1] : e \in d}

\* dict.update
DUpdate(d, other) == {e \in d : ~DHas(other, e[1])} \cup other

----------------------------------------------------------------------------
(* Source text.  A source is a sequence of statements; a statement is an   *)
(* import of one of the four shapes the bundler's patterns recognise, the  *)
(* 'const' line an import is rewritten to, or a line of other code.  Module *)
(* specifiers are a prefix ('./', '../', '/' or none) and path components. *)

Mod(prefix, rest) == [prefix |-> prefix, rest |-> rest]

NoMod == Mod("", <<>>)

Stmt(kind, name, mod) == [kind |-> kind, name |-> name, mod |-> mod]

Code(text) == Stmt("code", text, NoMod)

\* the specifier starts with neither '.' nor '/': [^'"./][^'"]*
IsBare(mod) == mod.prefix = "" /\ mod.rest # <<>>

\* the specifier ends in '.svelte'
SvelteNames == {"A.svelte", "B.svelte", "C.svelte", "index.svelte"}

IsSvelteFile(mod) == mod.rest # <<>> /\ mod.rest[Len(mod.rest)] \in SvelteNames

----------------------------------------------------------------------------
(* NPMBundler (src/fymo/core/bundler.py) *)

\* the four patterns of extract_npm_imports, in list order
ImportShapes == <<"named", "default", "ns", "side">>

MatchesOfShape(src, shape) ==
    SelectSeq(src, LAMBDA st : st.kind = shape /\ IsBare(st.mod))

\* package names of two characters
TwoCharNames == {"fs"}

\* the package a match stands for: findall gives a 2-tuple for the three shapes with
\* a binding and a plain string for the side-effect shape, and 'len(match) == 2'
\* then unpacks a two-character package name into its characters
PackageOfMatch(st) ==
    IF st.kind = "side" /\ Len(st.mod.rest) = 1 /\ st.mod.rest[1] \in TwoCharNames
    THEN Mod("", <<"s">>)
    ELSE st.mod

\* the (full_import, package_name) pairs of one pattern: full_import is
\* re.search(pattern, source).group(0), the first match, for every match
ImportsOfShape(src, shape) ==
    LET ms == MatchesOfShape(src, shape)
    IN  [i \in 1..Len(ms) |-> <<ms[1], PackageOfMatch(ms[i])>>]

\* NPMBundler.extract_npm_imports
ExtractNpmImports(src) ==
    Concat([k \in 1..Len(ImportShapes) |-> ImportsOfShape(src, ImportShapes[k])])

\* f"{package_name}_{target}"
CacheKey(pkg, target) == <<pkg, target>>

\* what esbuild prints for a package it can bundle
BundleText(pkg, target) == <<"bundle", pkg, target>>

BundleSinglePackageMutant(pkg, target, st, env) ==
    LET key == CacheKey(pkg, target)
    IN  IF <<pkg, target>> \in env
        THEN [st |-> [st EXCEPT !.runs = Incr(@, key),
                                !.bundle_cache = DPut(@, key, BundleText(pkg, target))],
              exc |-> "none", code |-> BundleText(pkg, target)]
        ELSE [st |-> [st EXCEPT !.runs = Incr(@, key)],
              exc |-> "CompilationError", code |-> <<>>]

\* NPMBundler._bundle_single_package, on the state st of the caches and counters;
\* env is the set of (package, target) pairs esbuild exits 0 for
BundleSinglePackage(pkg, target, st, env) ==
    LET key == CacheKey(pkg, target)
    IN  IF DHas(st.bundle_cache, key)
        THEN [st |-> [st EXCEPT !.hits = Incr(@, key)],
              exc |-> "none", code |-> DGet(st.bundle_cache, key)]
        ELSE IF <<pkg, target>> \in env
        THEN [st |-> [st EXCEPT !.runs = Incr(@, key),
                                !.bundle_cache = DPut(@, key, BundleText(pkg, target))],
              exc |-> "none", code |-> BundleText(pkg, target)]
        ELSE [st |-> [st EXCEPT !.runs = Incr(@, key)],
              exc |-> "CompilationError", code |-> <<>>]

RewriteImport(st) ==
    IF st.kind = "named" THEN Stmt("const_named", st.name, st.mod)
    ELSE IF st.kind = "default" THEN Stmt("const_default", st.name, st.mod)
    ELSE Stmt("const_ns", st.name, st.mod)

RECURSIVE ReplacePackageImports(_, _)
\* NPMBundler._replace_package_imports: the imports of exactly this package become
\* reads of globalThis._fymo_packages, its side-effect imports are dropped
ReplacePackageImports(src, pkg) ==
    IF src = <<>> THEN <<>>
    ELSE LET st == Head(src)
             rest == ReplacePackageImports(Tail(src), pkg)
         IN  IF st.mod = pkg /\ st.kind \in {"named", "default", "ns"}
             THEN <<RewriteImport(st)>> \o rest
             ELSE IF st.mod = pkg /\ st.kind = "side" THEN rest
             ELSE <<st>> \o rest

RECURSIVE RemoveStatements(_, _, _)
\* the except branch of bundle_npm_packages: str.replace(import_statement, '') for
\* every extracted pair of the failed package
RemoveStatements(src, imports, pkg) ==
    IF imports = <<>> THEN src
    ELSE LET stmt == Head(imports)[1]
             next == IF Head(imports)[2] = pkg
                     THEN SelectSeq(src, LAMBDA st : st # stmt)
                     ELSE src
         IN  RemoveStatements(next, Tail(imports), pkg)

RECURSIVE BundleLoop(_, _, _, _, _)
\* the loop of bundle_npm_packages over the unique packages
BundleLoop(pkgs, imports, target, acc, env) ==
    IF pkgs = <<>> THEN acc
    ELSE LET b == BundleSinglePackage(Head(pkgs), target, acc.st, env)
             next ==
                 IF b.exc = "none"
                 THEN [st |-> b.st,
                       src |-> ReplacePackageImports(acc.src, Head(pkgs)),
                       pkgs |-> DPut(acc.pkgs, Head(pkgs), b.code)]
                 ELSE [st |-> b.st,
                       src |-> RemoveStatements(acc.src, imports, Head(pkgs)),
                       pkgs |-> acc.pkgs]
         IN  BundleLoop(Tail(pkgs), imports, target, next, env)

\* iteration order of a Python set: fixed within a process, arbitrary across them
OrderSet(S, order) == SelectSeq(order, LAMBDA x : x \in S)

\* NPMBundler.bundle_npm_packages
BundleNpmPackages(src, target, st, env, order) ==
    LET imports == ExtractNpmImports(src)
        unique == {imports[i][2] : i \in 1..Len(imports)}
    IN  IF imports = <<>> THEN [st |-> st, src |-> src, pkgs |-> {}]
        ELSE BundleLoop(OrderSet(unique, order), imports, target,
                        [st |-> st, src |-> src, pkgs |-> {}], env)

----------------------------------------------------------------------------
(* ComponentResolver (src/fymo/core/component_resolver.py).  File paths are *)
(* sequences of path components below the templates root.                  *)

Parent(path) == SubSeq(path, 1, Len(path) - 1)

\* ComponentResolver._resolve_import_path
ResolveImportPath(mod, cur) ==
    IF mod.prefix = "./" THEN Parent(cur) \o mod.rest
    ELSE IF mod.prefix = "../" THEN Parent(cur) \o <<"..">> \o mod.rest
    ELSE IF mod.prefix = "/" THEN mod.rest
    ELSE Parent(cur) \o mod.rest

RECURSIVE NormPath(_)
\* the file a path names: the operating system resolves 'dir/..'
NormPath(path) ==
    IF \A i \in 1..Len(path) : path[i] # ".." THEN path
    ELSE LET k == CHOOSE i \in 1..Len(path) :
                      path[i] = ".." /\ \A j \in 1..(i - 1) : path[j] # ".."
         IN  IF k = 1 THEN NormPath(Tail(path))
             ELSE NormPath(SubSeq(path, 1, k - 2) \o SubSeq(path, k + 1, Len(path)))

\* Path.exists
Exists(fs, path) == DHas(fs, NormPath(path))

LoadComponentMutant(path, st, fs) ==
    IF DHas(st.component_cache, path)
    THEN [st |-> [st EXCEPT !.component_cache = DDel(@, path)],
          source |-> DGet(st.component_cache, path)]
    ELSE [st |-> [st EXCEPT !.component_cache = DPut(@, path, DGet(fs, NormPath(path)))],
          source |-> DGet(fs, NormPath(path))]

\* ComponentResolver._load_component, for a path that exists
LoadComponent(path, st, fs) ==
    IF DHas(st.component_cache, path)
    THEN [st |-> st, source |-> DGet(st.component_cache, path)]
    ELSE [st |-> [st EXCEPT !.component_cache = DPut(@, path, DGet(fs, NormPath(path)))],
          source |-> DGet(fs, NormPath(path))]

\* ComponentResolver._track_dependency
TrackDependency(graph, parent, child) ==
    DPut(graph, parent, (IF DHas(graph, parent) THEN DGet(graph, parent) ELSE {})
                        \cup {child})

\* the pattern import\s+(\w+)\s+from\s+['"]([^'"]+\.svelte)['"]
IsSvelteImport(st) == st.kind = "default" /\ IsSvelteFile(st.mod)

Raised(st, exc) == [st |-> st, exc |-> exc, src |-> <<>>, comps |-> {}, pkgs |-> {}]

RECURSIVE ResolveImports(_, _, _, _, _, _, _, _), ResolveLoop(_, _, _, _, _, _, _, _)
\* a resolve_imports that gives up silently at the depth limit and returns
ResolveImportsMutant(src, cur, target, st, fs, env, order, depth) ==
    IF depth = 0
    THEN [st |-> st, exc |-> "none", src |-> src, comps |-> {}, pkgs |-> {}]
    ELSE LET b == BundleNpmPackages(src, target, st, env, order)
             imps == SelectSeq(b.src, IsSvelteImport)
             loop == ResolveLoop(imps, cur, target,
                                 [st |-> b.st, exc |-> "none", src |-> b.src,
                                  comps |-> {}, pkgs |-> b.pkgs],
                                 fs, env, order, depth)
         IN  IF loop.exc # "none" THEN Raised(loop.st, loop.exc)
             ELSE [loop EXCEPT !.src = SelectSeq(b.src, LAMBDA x : ~IsSvelteImport(x))]

\* ComponentResolver.resolve_imports.  world is the file system and the set of
\* bundlable packages, order the set-iteration order, depth the frames left before
\* the interpreter's recursion limit
ResolveImports(src, cur, target, st, fs, env, order, depth) ==
    IF depth = 0 THEN Raised(st, "RecursionError")
    ELSE LET b == BundleNpmPackages(src, target, st, env, order)
             imps == SelectSeq(b.src, IsSvelteImport)
             loop == ResolveLoop(imps, cur, target,
                                 [st |-> b.st, exc |-> "none", src |-> b.src,
                                  comps |-> {}, pkgs |-> b.pkgs],
                                 fs, env, order, depth)
         IN  IF loop.exc # "none" THEN Raised(loop.st, loop.exc)
             ELSE [loop EXCEPT !.src = SelectSeq(b.src, LAMBDA x : ~IsSvelteImport(x))]

\* the for loop of resolve_imports over the component imports found
ResolveLoop(imps, cur, target, acc, fs, env, order, depth) ==
    IF imps = <<>> THEN acc
    ELSE LET imp == Head(imps)
             resolved == ResolveImportPath(imp.mod, cur)
         IN  IF ~Exists(fs, resolved) THEN Raised(acc.st, "TemplateError")
             ELSE LET ld == LoadComponent(resolved, acc.st, fs)
                      sub == ResolveImports(ld.source, resolved, target, ld.st,
                                            fs, env, order, depth - 1)
                  IN  IF sub.exc # "none" THEN Raised(sub.st, sub.exc)
                      ELSE ResolveLoop(Tail(imps), cur, target,
                               [st |-> [sub.st EXCEPT !.dependency_graph =
                                           TrackDependency(@, cur, resolved)],
                                exc |-> "none",
                                src |-> acc.src,
                                comps |-> DUpdate(DPut(acc.comps, imp.name, sub.src),
                                                  sub.comps),
                                pkgs |-> DUpdate(acc.pkgs, sub.pkgs)],
                               fs, env, order, depth)

\* an invalidation that follows the dependency edges upwards to every ancestor
RECURSIVE Ancestors(_, _)
Ancestors(graph, paths) ==
    LET up == paths \cup {e[1] : e \in {g \in graph : g[2] \cap paths # {}}}
    IN  IF up = paths THEN paths ELSE Ancestors(graph, up)

InvalidateCacheForFileMutant(st, path) ==
    [st EXCEPT !.component_cache =
        {e \in @ : e[1] \notin Ancestors(st.dependency_graph, {path})}]

\* ComponentResolver.invalidate_cache_for_file
InvalidateCacheForFile(st, path) ==
    LET c1 == DDel(st.component_cache, path)
        parents == {e[1] : e \in {g \in st.dependency_graph : path \in g[2]}}
    IN  [st EXCEPT !.component_cache = {e \in c1 : e[1] \notin parents}]

----------------------------------------------------------------------------
(* Resolver and bundler: sources, files and the specification SpecResolver *)

Targets == {"browser", "node"}

DateFns == Mod("", <<"date-fns">>)
DayJs == Mod("", <<"dayjs">>)

Packages == {DateFns, DayJs}

MainPath == <<"home", "index.svelte">>
PathA == <<"home", "A.svelte">>
PathB == <<"home", "B.svelte">>
PathC == <<"home", "C.svelte">>

ImportA(name) == Stmt("default", name, Mod("./", <<"A.svelte">>))
ImportB(name) == Stmt("default", name, Mod("./", <<"B.svelte">>))
ImportC(name) == Stmt("default", name, Mod("./", <<"C.svelte">>))

\* sources handed to resolve_imports and bundle_npm_packages as the main component
MainSources ==
    {<<Stmt("named", "format", DateFns), ImportA("Card"), ImportB("Badge"), Code("main")>>,
     <<Stmt("named", "format", DateFns), Stmt("named", "parse", DayJs),
       Stmt("side", "", DateFns), Code("main")>>}

SourcesA ==
    {<<Code("a")>>,
     <<ImportC("Badge"), Code("a")>>,
     <<Stmt("default", "dayjs", DayJs), ImportB("Icon"), Code("a")>>}

SourcesB == {<<Code("b")>>}

SourcesC == {<<Code("c")>>, <<ImportA("Card"), Code("c")>>}

FileChoices ==
    {<<PathA, x>> : x \in SourcesA} \cup {<<PathB, x>> : x \in SourcesB}
    \cup {<<PathC, x>> : x \in SourcesC}

\* the component trees a project starts with
Projects ==
    {{<<PathA, <<Code("a")>>>>, <<PathB, <<Code("b")>>>>, <<PathC, <<Code("c")>>>>},
     {<<PathA, <<ImportC("Badge"), Code("a")>>>>, <<PathB, <<Code("b")>>>>,
      <<PathC, <<Code("c")>>>>},
     {<<PathA, <<Stmt("default", "dayjs", DayJs), ImportB("Icon"), Code("a")>>>>,
      <<PathB, <<Code("b")>>>>},
     {<<PathA, <<ImportC("Badge"), Code("a")>>>>,
      <<PathC, <<ImportA("Card"), Code("c")>>>>}}

AllBundlable == Packages \X Targets

Caches ==
    [component_cache |-> component_cache, dependency_graph |-> dependency_graph,
     bundle_cache |-> bundle_cache, runs |-> runs, hits |-> hits]

Visible(r) == [exc |-> r.exc, src |-> r.src, comps |-> r.comps, pkgs |-> r.pkgs]

SetCaches(st) ==
    /\ component_cache' = st.component_cache
    /\ dependency_graph' = st.dependency_graph
    /\ bundle_cache' = st.bundle_cache
    /\ runs' = st.runs
    /\ hits' = st.hits

InitResolver ==
    /\ RouterIdle
    /\ RenderIdle
    /\ UnitIdle
    /\ files \in Projects
    /\ bundlable \in {{DateFns} \X Targets, AllBundlable}
    /\ setOrder \in {<<DateFns, DayJs>>, <<DayJs, DateFns>>}
    /\ component_cache = {}
    /\ dependency_graph = {}
    /\ bundle_cache = {}
    /\ runs = {}
    /\ hits = {}
    /\ calls = 0
    /\ writes = 0
    /\ lastOp = "none"
    /\ lastArgs = NoArgs
    /\ lastResult = NoResult
    /\ repeated = FALSE

\* a call of resolve_imports for the main component
DoResolve ==
    /\ calls < MaxCalls
    /\ \E src \in MainSources, target \in Targets :
          LET r == ResolveImports(src, MainPath, target, Caches, files, bundlable,
                                  setOrder, RecursionLimit)
              args == [src |-> src, target |-> target]
          IN  /\ SetCaches(r.st)
              /\ lastResult' = Visible(r)
              /\ lastArgs' = args
              /\ repeated' = (lastOp = "resolve" /\ lastArgs = args)
    /\ lastOp' = "resolve"
    /\ calls' = calls + 1
    /\ UNCHANGED <<routerVars, renderVars, unitVars, files, bundlable, setOrder, writes>>

\* a call of bundle_npm_packages
DoBundle ==
    /\ calls < MaxCalls
    /\ \E src \in MainSources, target \in Targets :
          LET r == BundleNpmPackages(src, target, Caches, bundlable, setOrder)
              args == [src |-> src, target |-> target]
          IN  /\ SetCaches(r.st)
              /\ lastResult' = [exc |-> "none", src |-> r.src, comps |-> {},
                                pkgs |-> r.pkgs]
              /\ lastArgs' = args
              /\ repeated' = (lastOp = "bundle" /\ lastArgs = args)
    /\ lastOp' = "bundle"
    /\ calls' = calls + 1
    /\ UNCHANGED <<routerVars, renderVars, unitVars, files, bundlable, setOrder, writes>>

\* the environment edits, creates or deletes a component file
WriteFile ==
    /\ writes < MaxWrites
    /\ \/ \E f \in FileChoices : files' = DPut(files, f[1], f[2])
       \/ \E path \in DKeys(files) : files' = DDel(files, path)
    /\ writes' = writes + 1
    /\ lastOp' = "write"
    /\ repeated' = FALSE
    /\ UNCHANGED <<routerVars, renderVars, unitVars, bundlable, setOrder, component_cache, dependency_graph,
                   bundle_cache, runs, hits, calls, lastArgs, lastResult>>

\* the environment installs the missing packages
NpmInstall ==
    /\ bundlable # AllBundlable
    /\ bundlable' = AllBundlable
    /\ lastOp' = "install"
    /\ repeated' = FALSE
    /\ UNCHANGED <<routerVars, renderVars, unitVars, files, setOrder, component_cache, dependency_graph,
                   bundle_cache, runs, hits, calls, writes, lastArgs, lastResult>>

NextResolver == DoResolve \/ DoBundle \/ WriteFile \/ NpmInstall

SpecResolver == InitResolver /\ [][NextResolver]_vars

----------------------------------------------------------------------------
(* Resolver and bundler: the properties checked under SpecResolver *)

AllKeys == {CacheKey(pkg, target) : pkg \in Packages, target \in Targets}

\* C7 as stated: over any series of calls esbuild runs at most once for each
\* (package, target) pair
C7_ToolchainAtMostOncePerPair == \A key \in AllKeys : Count(runs, key) <= 1

\* C7, amended: once esbuild has succeeded for a (package, target) pair, so that the
\* pair is in bundle_cache, no later call runs esbuild for that pair again
C7_NoRunAfterSuccess ==
    [][\A key \in DKeys(bundle_cache) : Count(runs', key) = Count(runs, key)]_vars

\* C7 witness: a pair was bundled by one esbuild run and a later call of
\* bundle_npm_packages was answered from bundle_cache
C7_Witness ==
    /\ lastOp = "bundle"
    /\ \E key \in DKeys(bundle_cache) :
          /\ Count(runs, key) = 1
          /\ Count(hits, key) >= 1
          /\ DHas(lastResult.pkgs, key[1])

\* the files a source imports as components, as the files they name
DirectImports(src, cur) ==
    {NormPath(ResolveImportPath(src[i].mod, cur)) :
        i \in {j \in 1..Len(src) : IsSvelteImport(src[j])}}

RECURSIVE ClosureFrom(_, _, _)
ClosureFrom(fs, frontier, seen) ==
    IF frontier = {} THEN seen
    ELSE LET p == CHOOSE x \in frontier : TRUE
             new == IF DHas(fs, p) THEN DirectImports(DGet(fs, p), p) ELSE {}
         IN  ClosureFrom(fs, (frontier \cup new) \ (seen \cup {p}), seen \cup {p})

\* the distinct component files in the transitive import closure of a main source
ImportClosure(fs, src) == ClosureFrom(fs, DirectImports(src, MainPath), {})

\* no file of the closure imports itself, directly or through others
Acyclic(fs, src) ==
    \A p \in ImportClosure(fs, src) :
        DHas(fs, p) /\ p \notin ClosureFrom(fs, DirectImports(DGet(fs, p), p), {})

\* the component cache holds what the files hold
CacheFresh ==
    \A e \in component_cache : DHas(files, NormPath(e[1])) /\ DGet(files, NormPath(e[1])) = e[2]

\* C8: a resolve_imports call that returns, for an acyclic tree read from the files as
\* they are, gives an importedComponents map with one entry per distinct file of the
\* import closure of the main source
C8_OneEntryPerClosureFile ==
    (/\ lastOp = "resolve"
     /\ lastResult.exc = "none"
     /\ CacheFresh
     /\ Acyclic(files, lastArgs.src))
    => Cardinality(DKeys(lastResult.comps)) = Cardinality(ImportClosure(files, lastArgs.src))

\* C9: a resolve_imports call that repeats the call before it (same source, path and
\* target, nothing in between) returns or raises what that call did and leaves
\* component_cache and dependency_graph as that call left them
C9_ResolveTwiceSame ==
    [][(/\ lastOp = "resolve"
        /\ lastOp' = "resolve"
        /\ calls' = calls + 1
        /\ lastArgs' = lastArgs)
       => (/\ lastResult' = lastResult
           /\ component_cache' = component_cache
           /\ dependency_graph' = dependency_graph)]_vars

\* C9 witness: the repeated call returned components read from the cache and a
\* bundled package
C9_Witness ==
    /\ lastOp = "resolve"
    /\ repeated
    /\ lastResult.exc = "none"
    /\ lastResult.comps # {}
    /\ lastResult.pkgs # {}
    /\ component_cache # {}
    /\ dependency_graph # {}

----------------------------------------------------------------------------
(* JSRuntime (src/fymo/core/runtime.py).  Texts are sequences of strings.  *)

\* positional parameters, after self, of JSRuntime.render_component
RenderComponentArity == 3
\* arguments the orchestrators pass to it: compiled js, props, path, controller
RenderCallArgs == 4
\* positional parameters, after self, of JSRuntime.transform_client_js_for_hydration
TransformArity == 2
\* arguments the orchestrators pass to it: client js, path, props, doc_meta
TransformCallArgs == 4

Returned(value) == [exc |-> "none", msg |-> <<>>, value |-> value]

Raise(exc, msg) == [exc |-> exc, msg |-> msg, value |-> <<>>]

\* a Python call: a TypeError unless the arguments fit the parameters
Call(nargs, arity, name, value) ==
    IF nargs # arity
    THEN Raise("TypeError", <<name, "() takes ", "positional arguments but more were given">>)
    ELSE Returned(value)

\* what the compiled component renders for the props
EngineHtml(props) == <<"<h1>">> \o [i \in 1..Len(props) |-> props[i][2]] \o <<"</h1>">>

SsrErrorHtml(msg) == <<"<div class=\"ssr-error\">SSR Error: ", msg, "</div>">>

\* the body of JSRuntime.render_component: the result dict, whatever the engine does
RenderComponent(compiled_js, props, template_path) ==
    IF engine = "ok"
    THEN [hasError |-> FALSE, error |-> <<>>, html |-> EngineHtml(props)]
    ELSE IF engine = "error_result"
    THEN [hasError |-> TRUE, error |-> <<"render failed">>, html |-> <<>>]
    ELSE IF engine = "js_error"
    THEN [hasError |-> TRUE, error |-> <<"STPyV8 Runtime Error: ", "ReferenceError">>,
          html |-> SsrErrorHtml("ReferenceError")]
    ELSE [hasError |-> TRUE, error |-> <<"Unexpected error: ", "engine fault">>,
          html |-> SsrErrorHtml("engine fault")]

\* the body of JSRuntime.transform_client_js_for_hydration
TransformClientJsForHydration(compiled_js, template_path) ==
    <<"import * as SvelteRuntime from '/assets/svelte-runtime.js';",
      "const componentSource = ">> \o compiled_js \o <<";">>

----------------------------------------------------------------------------
(* SvelteCompiler (src/fymo/core/compiler.py) *)

\* the value of an expression, bound once
The(S) == CHOOSE x \in S : TRUE

\* the text of an exception resolve_imports raises
ResolveMessage(exc) ==
    IF exc = "TemplateError" THEN <<"Component not found: ", "import">>
    ELSE <<"maximum recursion depth exceeded">>

HasStyle(src) == \E i \in 1..Len(src) : src[i] = Code("style")

Compiled(st, artifact) == [st |-> st, exc |-> "none", msg |-> <<>>, artifact |-> artifact]

CompilerFailed(st, exc, msg) == [st |-> st, exc |-> exc, msg |-> msg, artifact |-> NoArtifact]

SubprocessResultMutant(st, src, target, behaviour) ==
    IF behaviour \in {"ok", "exit_nonzero"}
    THEN Compiled(st, [success |-> TRUE, hasError |-> FALSE, error |-> <<>>,
                       js |-> <<"js:" \o target>>,
                       css |-> IF HasStyle(src) THEN <<"h1{}">> ELSE <<>>])
    ELSE IF behaviour = "payload_error"
    THEN Compiled(st, [success |-> FALSE, hasError |-> TRUE,
                       error |-> <<"Unexpected token">>, js |-> <<>>, css |-> <<>>])
    ELSE IF behaviour = "bad_json"
    THEN CompilerFailed(st, "JSONDecodeError", <<"Expecting value">>)
    ELSE CompilerFailed(st, "FileNotFoundError", <<"No such file or directory: 'node'">>)

\* what _run_compiler makes of the node subprocess: exit 0 with a success payload, exit
\* 0 with a failure payload, a non-zero exit, exit 0 with output that is no JSON, or
\* subprocess.run failing to start node
SubprocessResult(st, src, target, behaviour) ==
    IF behaviour = "ok"
    THEN Compiled(st, [success |-> TRUE, hasError |-> FALSE, error |-> <<>>,
                       js |-> <<"js:" \o target>>,
                       css |-> IF HasStyle(src) THEN <<"h1{}">> ELSE <<>>])
    ELSE IF behaviour = "payload_error"
    THEN Compiled(st, [success |-> FALSE, hasError |-> TRUE,
                       error |-> <<"Unexpected token">>, js |-> <<>>, css |-> <<>>])
    ELSE IF behaviour = "exit_nonzero"
    THEN Compiled(st, [success |-> FALSE, hasError |-> TRUE,
                       error |-> <<"Compiler process failed: ", "node: stderr">>,
                       js |-> <<>>, css |-> <<>>])
    ELSE IF behaviour = "bad_json"
    THEN CompilerFailed(st, "JSONDecodeError", <<"Expecting value">>)
    ELSE CompilerFailed(st, "FileNotFoundError", <<"No such file or directory: 'node'">>)

\* _run_compiler after resolve_imports returned or raised r
AfterResolve(r, src, target) ==
    IF r.exc # "none" THEN CompilerFailed(r.st, r.exc, ResolveMessage(r.exc))
    ELSE SubprocessResult(r.st, src, target,
                          IF target = "ssr" THEN compilerSsr ELSE compilerDom)

\* SvelteCompiler._run_compiler: resolve_imports first, then the node subprocess, whose
\* behaviour is the environment's (compilerSsr, compilerDom)
RunCompiler(src, tp, target, st) ==
    The({AfterResolve(r, src, target) :
            r \in {ResolveImports(src, tp, IF target = "ssr" THEN "node" ELSE "browser",
                                  st, files, bundlable, setOrder, RecursionLimit)}})

\* SvelteCompiler.compile_ssr
CompileSsr(src, tp, st) == RunCompiler(src, tp, "ssr", st)

\* SvelteCompiler.compile_dom
CompileDom(src, tp, st) == RunCompiler(src, tp, "dom", st)

----------------------------------------------------------------------------
(* TemplateRenderer (src/fymo/core/template_renderer.py) *)

RECURSIVE JoinStr(_)
JoinStr(toks) == IF toks = <<>> THEN "" ELSE Head(toks) \o JoinStr(Tail(toks))

\* the file of route_info['template'] below app/templates
TemplateFile(template) ==
    LET segs == SplitOn(template, "/")
    IN  [i \in 1..Len(segs) |-> JoinStr(segs[i])]

\* template_path.stem
Stem(template) ==
    LET segs == SplitOn(template, "/")
        last == segs[Len(segs)]
    IN  JoinStr(SubSeq(last, 1, Len(last) - 1))

Registries == [compiled_components |-> compiled_components, extracted_css |-> extracted_css]

\* TemplateRenderer._render_404
Render404 ==
    <<"<!DOCTYPE html>", "<title>404 - Not Found</title>", "<h1>404 - Page Not Found</h1>">>

PropsOpen == "<script id=\"svelte-props\" type=\"application/json\">"

MountOpen == "<div id=\"svelte-app\">"
MountClose == "</div>"

\* json.dumps of a str, a string being one token of text: the quote and the backslash
\* are escaped, '<', '>' and '/' are written as they are
JsonString(v) ==
    <<"\"", IF v = "\"" THEN "\\\"" ELSE IF v = "\\" THEN "\\\\" ELSE v, "\"">>

RECURSIVE JsonDumps(_)
\* json.dumps of the props dict, without its braces: "key": "value", ...
JsonDumps(props) ==
    IF props = <<>> THEN <<>>
    ELSE JsonString(props[1][1]) \o <<":">> \o JsonString(props[1][2])
         \o (IF Len(props) > 1 THEN <<",">> ELSE <<>>) \o JsonDumps(Tail(props))

\* AssetManager.generate_css_links
GenerateCssLinks(reg) ==
    IF reg.extracted_css = {} THEN <<>>
    ELSE <<"<link rel=\"stylesheet\" href=\"/assets/css/", "\">">>

\* TemplateRenderer._generate_html_page
GenerateHtmlPage(content, props, hydration_js, doc_meta, reg) ==
    <<"<!DOCTYPE html>", "<title>", "Fymo App", "</title>">> \o GenerateCssLinks(reg)
    \o <<"<body>", MountOpen>> \o content \o <<MountClose>>
    \o <<PropsOpen, "{">> \o JsonDumps(props)
    \o <<"}", "</script>", "<script type=\"module\">">> \o hydration_js
    \o <<"</script>", "</body>">>

\* TemplateRenderer._load_controller_data: ImportError and AttributeError give empty
\* data, any other exception of getContext propagates
LoadControllerData(module) ==
    IF module.kind = "missing" THEN Returned([bound |-> TRUE, props |-> <<>>])
    ELSE IF module.kind = "plain" THEN Returned([bound |-> TRUE, props |-> <<>>])
    ELSE IF module.kind = "context" THEN Returned([bound |-> TRUE, props |-> module.props])
    ELSE Raise("ValueError", <<"getContext failed">>)

Outcome(st, reg, html, status, trace, artifact) ==
    [st |-> st, reg |-> reg, html |-> html, status |-> status, stages |-> trace,
     artifact |-> artifact]

ExceptClausesMutant(exc, msg) ==
    IF exc = "TemplateError"
    THEN [html |-> <<"<div>Template Error: ">> \o msg \o <<"</div>">>,
          status |-> "404 NOT FOUND"]
    ELSE IF exc = "CompilationError"
    THEN [html |-> <<"<div>Compilation Error: ">> \o msg \o <<"</div>">>,
          status |-> "500 INTERNAL SERVER ERROR"]
    ELSE IF exc = "RenderingError"
    THEN [html |-> <<"<div>Rendering Error: ">> \o msg \o <<"</div>">>,
          status |-> "500 INTERNAL SERVER ERROR"]
    ELSE [html |-> <<>>, status |-> "unhandled " \o exc]

\* the except clauses of render_template
ExceptClauses(exc, msg) ==
    IF exc = "TemplateError"
    THEN [html |-> <<"<div>Template Error: ">> \o msg \o <<"</div>">>,
          status |-> "404 NOT FOUND"]
    ELSE IF exc = "CompilationError"
    THEN [html |-> <<"<div>Compilation Error: ">> \o msg \o <<"</div>">>,
          status |-> "500 INTERNAL SERVER ERROR"]
    ELSE IF exc = "RenderingError"
    THEN [html |-> <<"<div>Rendering Error: ">> \o msg \o <<"</div>">>,
          status |-> "500 INTERNAL SERVER ERROR"]
    ELSE [html |-> <<"<div>Server Error: ">> \o msg \o <<"</div>">>,
          status |-> "500 INTERNAL SERVER ERROR"]

\* the returns of FymoApp.render_svelte_template for the same failures, and its
\* single 'except Exception'
AppReturns(exc, msg) ==
    IF exc = "TemplateNotFound"
    THEN [html |-> msg, status |-> "404 NOT FOUND"]
    ELSE IF exc = "CompilationError"
    THEN [html |-> <<"<div>Svelte Compilation Error: ">> \o msg \o <<"</div>">>,
          status |-> "500 INTERNAL SERVER ERROR"]
    ELSE IF exc = "RenderingError"
    THEN [html |-> <<"<div>SSR Error: ">> \o msg \o <<"</div>">>,
          status |-> "500 INTERNAL SERVER ERROR"]
    ELSE [html |-> <<"<div>Server Error: ">> \o msg \o <<"</div>">>,
          status |-> "500 INTERNAL SERVER ERROR"]

\* how the orchestrator answers a failure: TemplateRenderer raises and catches, with
\* the message prefixed at the raise; FymoApp returns in place
Caught(orch, st, reg, exc, msg, trace, artifact) ==
    IF orch = "FymoApp"
    THEN Outcome(st, reg, AppReturns(exc, msg).html, AppReturns(exc, msg).status,
                 trace, artifact)
    ELSE IF exc = "TemplateNotFound"
    THEN Outcome(st, reg, ExceptClauses("TemplateError", msg).html,
                 ExceptClauses("TemplateError", msg).status, trace, artifact)
    ELSE IF exc = "CompilationError"
    THEN Outcome(st, reg,
                 ExceptClauses(exc, <<"Svelte compilation failed: ">> \o msg).html,
                 ExceptClauses(exc, msg).status, trace, artifact)
    ELSE IF exc = "RenderingError"
    THEN Outcome(st, reg, ExceptClauses(exc, <<"SSR rendering failed: ">> \o msg).html,
                 ExceptClauses(exc, msg).status, trace, artifact)
    ELSE Outcome(st, reg, ExceptClauses(exc, msg).html, ExceptClauses(exc, msg).status,
                 trace, artifact)

\* _compile_for_hydration after compile_dom returned or raised c
AfterCompileDom(c, template, reg) ==
    IF c.exc # "none"
    THEN [st |-> c.st, reg |-> reg, exc |-> c.exc, msg |-> c.msg, js |-> <<>>,
          trace |-> << <<"compile_dom", "raised">> >>]
    ELSE IF c.artifact.success
    THEN LET t == Call(TransformCallArgs, TransformArity,
                       "transform_client_js_for_hydration",
                       TransformClientJsForHydration(c.artifact.js, TemplateFile(template)))
         IN  [st |-> c.st,
              reg |-> [reg EXCEPT !.compiled_components =
                          DPut(@, Stem(template) \o ".js", c.artifact.js)],
              exc |-> t.exc, msg |-> t.msg, js |-> t.value,
              trace |-> << <<"compile_dom", "ok">>,
                           <<"transform", IF t.exc = "none" THEN "returned"
                                          ELSE "raised">> >>]
    ELSE [st |-> c.st, reg |-> reg, exc |-> "none", msg |-> <<>>,
          js |-> <<"console.error('Client compilation failed');">>,
          trace |-> << <<"compile_dom", "failed">> >>]

\* TemplateRenderer._compile_for_hydration, and the same lines of FymoApp
CompileForHydration(src, template, props, doc_meta, st, reg) ==
    The({AfterCompileDom(c, template, reg) :
            c \in {CompileDom(src, TemplateFile(template), st)}})

\* the end of the render: the hydration script raised, or the page is assembled
AfterHydration(orch, h, html, props, trace, artifact) ==
    IF h.exc # "none"
    THEN Caught(orch, h.st, h.reg, h.exc, h.msg, trace \o h.trace, artifact)
    ELSE Outcome(h.st, h.reg, GenerateHtmlPage(html, props, h.js, <<>>, h.reg), "200 OK",
                 trace \o h.trace \o << <<"assemble", "ok">> >>, artifact)

\* the render after the render_component call returned or raised
AfterRenderCall(orch, call, src, template, props, c, trace) ==
    IF call.exc # "none"
    THEN Caught(orch, c.st, Registries, call.exc, call.msg,
                trace \o << <<"render_component", "raised">> >>, c.artifact)
    ELSE IF call.value.hasError
    THEN Caught(orch, c.st, Registries, "RenderingError", call.value.error,
                trace \o << <<"render_component", "error">> >>, c.artifact)
    ELSE The({AfterHydration(orch, h, call.value.html, props,
                             trace \o << <<"render_component", "returned">> >>,
                             c.artifact) :
                 h \in {CompileForHydration(src, template, props, <<>>, c.st,
                           IF c.artifact.css # <<>>
                           THEN [Registries EXCEPT !.extracted_css =
                                    DPut(@, Stem(template) \o ".css", c.artifact.css)]
                           ELSE Registries)}})

\* the render after compile_ssr returned or raised c; in FymoApp the name 'controller'
\* is unbound at the call when the import of the controller module failed
AfterCompileSsr(orch, c, src, template, props, trace) ==
    IF c.exc # "none"
    THEN Caught(orch, c.st, Registries, c.exc, c.msg,
                trace \o << <<"compile_ssr", "raised">> >>, c.artifact)
    ELSE IF ~c.artifact.success
    THEN Caught(orch, c.st, Registries, "CompilationError",
                IF c.artifact.hasError THEN c.artifact.error
                ELSE <<"Unknown compilation error">>,
                trace \o << <<"compile_ssr", "failed">> >>, c.artifact)
    ELSE IF orch = "FymoApp" /\ controller_module.kind = "missing"
    THEN Caught(orch, c.st, Registries, "UnboundLocalError",
                <<"cannot access local variable 'controller'">>,
                trace \o << <<"compile_ssr", "ok">> >>, c.artifact)
    ELSE The({AfterRenderCall(orch, call, src, template, props, c,
                              trace \o << <<"compile_ssr", "ok">> >>) :
                 call \in {Call(RenderCallArgs, RenderComponentArity, "render_component",
                                RenderComponent(c.artifact.js, props,
                                                TemplateFile(template)))}})

\* a render that goes on to the compiler after the controller raised
AfterControllerMutant(orch, data, src, template, trace) ==
    IF data.exc # "none"
    THEN The({AfterCompileSsr(orch, c, src, template, <<>>,
                              trace \o << <<"controller", "raised">> >>) :
                 c \in {CompileSsr(src, TemplateFile(template), Caches)}})
    ELSE The({AfterCompileSsr(orch, c, src, template, data.value.props,
                              trace \o << <<"controller", "ok">> >>) :
                 c \in {CompileSsr(src, TemplateFile(template), Caches)}})

\* the render after the controller data was loaded
AfterController(orch, data, src, template, trace) ==
    IF data.exc # "none"
    THEN Caught(orch, Caches, Registries, data.exc, data.msg,
                trace \o << <<"controller", "raised">> >>, NoArtifact)
    ELSE The({AfterCompileSsr(orch, c, src, template, data.value.props,
                              trace \o << <<"controller", "ok">> >>) :
                 c \in {CompileSsr(src, TemplateFile(template), Caches)}})

\* the render after router.match returned route_info
AfterMatch(orch, route_info) ==
    IF ~route_info.found
    THEN Outcome(Caches, Registries, Render404, "404 NOT FOUND",
                 << <<"match", "none">> >>, NoArtifact)
    ELSE IF ~DHas(files, TemplateFile(route_info.template))
    THEN Caught(orch, Caches, Registries, "TemplateNotFound",
                <<"Template not found: ">> \o route_info.template,
                << <<"match", "ok">>, <<"load", "missing">> >>, NoArtifact)
    ELSE The({AfterController(orch, data, DGet(files, TemplateFile(route_info.template)),
                              route_info.template,
                              << <<"match", "ok">>, <<"load", "ok">> >>) :
                 data \in {LoadControllerData(controller_module)}})

\* TemplateRenderer.render_template
RenderTemplate(route_path) ==
    The({AfterMatch("TemplateRenderer", route_info) :
            route_info \in {Match(routes, resources, route_path)}})

\* FymoApp.render_svelte_template
RenderSvelteTemplate(route_path) ==
    The({AfterMatch("FymoApp", route_info) :
            route_info \in {Match(routes, resources, route_path)}})

----------------------------------------------------------------------------
(* Render pipeline: projects, requests and the specification SpecRender *)

MainStyled == <<Code("style"), Code("main")>>
MainWithImports == <<Stmt("named", "format", DateFns), ImportA("Card"), Code("main")>>
MainOrphan == <<ImportA("Card"), Code("main")>>

\* the projects a server starts with: templates/home/index.svelte and what it imports
RenderProjects ==
    {{<<MainPath, MainStyled>>},
     {<<MainPath, MainWithImports>>, <<PathA, <<Code("a")>>>>},
     {<<MainPath, MainOrphan>>}}

Props == << <<"title", "T">> >>

Controllers ==
    {NoController, [kind |-> "plain", props |-> <<>>],
     [kind |-> "context", props |-> Props], [kind |-> "raises", props |-> <<>>]}

\* '/', '/posts' and '/a/b/c'
RenderPaths == {<<"/">>, <<"/", "posts">>, <<"/", "a", "/", "b", "/", "c">>}

InitRender ==
    /\ RouterIdle
    /\ UnitIdle
    /\ files \in RenderProjects
    /\ bundlable \in {{}, AllBundlable}
    /\ setOrder = <<DateFns, DayJs>>
    /\ component_cache = {}
    /\ dependency_graph = {}
    /\ bundle_cache = {}
    /\ runs = {}
    /\ hits = {}
    /\ calls = 0
    /\ writes = 0
    /\ lastOp = "none"
    /\ lastArgs = NoArgs
    /\ lastResult = NoResult
    /\ repeated = FALSE
    /\ orchestrator \in {"TemplateRenderer", "FymoApp"}
    /\ controller_module \in Controllers
    /\ compilerSsr \in {"ok", "payload_error", "exit_nonzero", "bad_json"}
    /\ compilerDom \in {"ok", "payload_error"}
    /\ engine \in {"ok", "js_error"}
    /\ compiled_components = {}
    /\ extracted_css = {}
    /\ renders = 0
    /\ reqPath = <<>>
    /\ response = NoResponse
    /\ stages = <<>>
    /\ ssrArtifact = NoArtifact

\* one request rendered by the orchestrator
DoRender ==
    /\ renders < MaxRenders
    /\ \E path \in RenderPaths :
          \E r \in {IF orchestrator = "TemplateRenderer" THEN RenderTemplate(path)
                      ELSE RenderSvelteTemplate(path)} :
              /\ SetCaches(r.st)
              /\ compiled_components' = r.reg.compiled_components
              /\ extracted_css' = r.reg.extracted_css
              /\ response' = [html |-> r.html, status |-> r.status]
              /\ stages' = r.stages
              /\ ssrArtifact' = r.artifact
              /\ reqPath' = path
    /\ renders' = renders + 1
    /\ UNCHANGED <<routerVars, unitVars, files, bundlable, setOrder, calls, writes, lastOp, lastArgs,
                   lastResult, repeated, orchestrator, controller_module, compilerSsr,
                   compilerDom, engine>>

NextRender == DoRender \/ WriteFile \/ NpmInstall

SpecRender == InitRender /\ [][NextRender]_vars

----------------------------------------------------------------------------
(* Render pipeline: the properties checked under SpecRender *)

StageOutcome(name, outcome) == \E i \in 1..Len(stages) : stages[i] = <<name, outcome>>

StageReached(name) == \E i \in 1..Len(stages) : stages[i][1] = name

\* the content of the mount element of a document
Mount(html) ==
    IF \E i \in 1..Len(html) : html[i] = MountOpen
    THEN LET i == CHOOSE k \in 1..Len(html) : html[k] = MountOpen
             j == CHOOSE k \in (i + 1)..Len(html) :
                      html[k] = MountClose /\ \A m \in (i + 1)..(k - 1) : html[m] # MountClose
         IN  SubSeq(html, i + 1, j - 1)
    ELSE <<"no mount element">>

Contains(text, part) ==
    \E i \in 1..(Len(text) - Len(part) + 1) : SubSeq(text, i, i + Len(part) - 1) = part

StatusCodes == {"200 OK", "404 NOT FOUND", "500 INTERNAL SERVER ERROR"}

\* C1: a request whose route matched, whose template was read, whose controller gave
\* props, whose server compile succeeded and whose engine and browser compile work is
\* answered 200 OK with the engine's HTML for the props in the mount element
C1_SuccessRenders200 ==
    (/\ renders > 0
     /\ StageOutcome("match", "ok")
     /\ StageOutcome("load", "ok")
     /\ StageOutcome("controller", "ok")
     /\ controller_module.kind = "context"
     /\ StageOutcome("compile_ssr", "ok")
     /\ engine = "ok"
     /\ compilerDom = "ok")
    => (/\ response.status = "200 OK"
        /\ Mount(response.html) = EngineHtml(controller_module.props))

\* C2: every render returns a pair of a non-empty html and a status among 200, 404
\* and 500, whatever the path and whichever stage failed
C2_RenderAlwaysResponds ==
    renders > 0 => (response.html # <<>> /\ response.status \in StatusCodes)

\* C2 witness: a stage raised an exception no clause names and the outermost handler
\* of render_template answered 500
C2_Witness ==
    /\ renders > 0
    /\ orchestrator = "TemplateRenderer"
    /\ StageOutcome("controller", "raised") \/ StageOutcome("compile_ssr", "raised")
    /\ response.status = "500 INTERNAL SERVER ERROR"
    /\ response.html # <<>>

\* C3: when the compiler ran for the ssr target and reported a failure, compile_ssr
\* returned success false with a non-empty error, the render answered 500 with that
\* error in the html, render_component was not called and compile_dom did not run
C3_ServerCompileFailure ==
    (/\ renders > 0
     /\ compilerSsr \in {"payload_error", "exit_nonzero"}
     /\ StageOutcome("compile_ssr", "ok") \/ StageOutcome("compile_ssr", "failed"))
    => (/\ ~ssrArtifact.success
        /\ ssrArtifact.hasError
        /\ ssrArtifact.error # <<>>
        /\ response.status = "500 INTERNAL SERVER ERROR"
        /\ Contains(response.html, ssrArtifact.error)
        /\ ~StageReached("render_component")
        /\ ~StageReached("compile_dom"))

\* C3 witness: node exited non-zero for the ssr target and the render answered 500
C3_Witness ==
    /\ renders > 0
    /\ compilerSsr = "exit_nonzero"
    /\ StageOutcome("compile_ssr", "failed")
    /\ response.status = "500 INTERNAL SERVER ERROR"
    /\ Contains(response.html, <<"Compiler process failed: ", "node: stderr">>)

\* C10: no call the orchestrator makes to render_component raises
C10_RenderCallReturns ==
    \A i \in 1..Len(stages) : stages[i][1] = "render_component" => stages[i][2] # "raised"

----------------------------------------------------------------------------
(* JSRuntime: its construction and direct render_component calls, SpecRuntime *)

\* JSRuntime._load_real_server_runtime: the text of the bundled file, None when the
\* file is missing or cannot be read
LoadRealServerRuntime(present) == IF present THEN "real" ELSE "None"

\* JSRuntime.__init__ and _setup_runtime: the real runtime code, else the mocked one
SetupRuntime(present) ==
    LET server_runtime == LoadRealServerRuntime(present)
    IN  IF server_runtime # "None"
        THEN [exc |-> "none", runtime_code |-> "real"]
        ELSE [exc |-> "none", runtime_code |-> "mocked"]

\* compiled components: one that only renders its props, one that sets a global and
\* logs an error, one that renders what it finds in the globals, one that throws
\* when its code is evaluated, one whose render function throws
GuestPure == <<"js:ssr">>
GuestWrites == <<"js:ssr", "globalThis.leak = 1", "console.error('e')">>
GuestReads == <<"js:ssr", "typeof globalThis.leak", "globalThis.__errors">>
GuestThrows == <<"js:ssr", "throw">>
GuestRenderThrows == <<"js:ssr", "render throws">>

GuestPrograms == {GuestPure, GuestWrites, GuestReads, GuestThrows, GuestRenderThrows}

HasStmt(js, stmt) == \E i \in 1..Len(js) : js[i] = stmt

\* STPyV8.JSContext(): a context of its own, whatever an earlier one was left with
OpenContextMutant(old) == old

OpenContext(old) == NewContext

\* ctx.eval(self.runtime_code): renderSvelte5 and the console become globals
EvalRuntime(ctx, code) == [ctx EXCEPT !.globals = @ \cup {"renderSvelte5", "console"}]

\* renderSvelte5(compiled_js, props) in ctx: console.error of the real runtime buffers
\* in globalThis.__errors, the mocked console drops the message; a throw while the
\* component code is evaluated is caught by the outer catch and becomes an error
\* result; a throw of the render function is caught by the outer catch of the mocked
\* runtime, and in the real runtime by the catch clauses inside renderComponent,
\* whose fallback result has html but no error
RenderSvelte5(ctx, code, compiled_js, props) ==
    LET globals == IF HasStmt(compiled_js, "globalThis.leak = 1")
                   THEN ctx.globals \cup {"leak"} ELSE ctx.globals
        errors == IF HasStmt(compiled_js, "console.error('e')") /\ code = "real"
                  THEN Append(ctx.errors, "e") ELSE ctx.errors
        seen == (IF HasStmt(compiled_js, "typeof globalThis.leak")
                 THEN <<IF "leak" \in ctx.globals THEN "number" ELSE "undefined">>
                 ELSE <<>>)
                \o (IF HasStmt(compiled_js, "globalThis.__errors")
                    THEN <<IF ctx.errors = <<>> THEN "no errors" ELSE "errors">>
                    ELSE <<>>)
    IN  [ctx |-> [globals |-> globals, errors |-> errors],
         result |-> IF HasStmt(compiled_js, "throw")
                    THEN [hasError |-> TRUE, error |-> <<"thrown">>,
                          html |-> SsrErrorHtml("thrown")]
                    ELSE IF HasStmt(compiled_js, "render throws")
                    THEN [hasError |-> (code # "real"),
                          error |-> IF code = "real" THEN <<>> ELSE <<"thrown">>,
                          html |-> SsrErrorHtml("thrown")]
                    ELSE [hasError |-> FALSE, error |-> <<>>,
                          html |-> EngineHtml(props) \o seen]]

\* JSRuntime._get_errors_if_any: prints the buffered errors and clears them
GetErrorsIfAny(ctx) == [ctx EXCEPT !.errors = <<>>]

\* JSRuntime.render_component with its context: 'with STPyV8.JSContext() as ctx' enters
\* a context and leaves it on return and on either except clause
RenderInContext(old, code, compiled_js, props) ==
    LET ctx == EvalRuntime(OpenContext(old), code)
        entered == open_contexts + 1
    IN  IF engine = "ok"
        THEN LET r == RenderSvelte5(ctx, code, compiled_js, props)
             IN  [result |-> r.result, left |-> GetErrorsIfAny(r.ctx), wrote |-> r.ctx.globals,
                  open |-> entered - 1]
        ELSE [result |-> RenderComponent(compiled_js, props, <<>>), left |-> ctx,
              wrote |-> ctx.globals, open |-> entered - 1]

RtProps == {<<>>, Props}

EngineFaults == {"ok", "js_error", "fault"}

InitRuntime ==
    /\ RouterIdle
    /\ ResolverIdle
    /\ RenderIdle
    /\ runtime_file \in BOOLEAN
    /\ runtime_code = "unset"
    /\ runtime_exc = "none"
    /\ open_contexts = 0
    /\ lastCtx = NewContext
    /\ rtCalls = 0
    /\ rtArgs = NoRenderArgs
    /\ rtResult = NoRender
    /\ firstResult = {}
    /\ guestWrote = {}
    /\ ToolIdle
    /\ PageIdle
    /\ LateIdle

\* JSRuntime()
NewJSRuntime ==
    /\ runtime_code = "unset"
    /\ runtime_exc = "none"
    /\ \E r \in {SetupRuntime(runtime_file)} :
        /\ runtime_code' = r.runtime_code
        /\ runtime_exc' = r.exc
    /\ UNCHANGED <<routerVars, resolverVars, renderVars, toolVars, pageVars, lateVars, runtime_file,
                   open_contexts, lastCtx, rtCalls, rtArgs, rtResult, firstResult, guestWrote>>

\* a call of render_component on the constructed runtime
DoRenderComponent ==
    /\ runtime_code # "unset"
    /\ rtCalls < MaxRtCalls
    /\ \E compiled_js \in GuestPrograms, props \in RtProps :
        \E r \in {RenderInContext(lastCtx, runtime_code, compiled_js, props)} :
            /\ rtArgs' = [compiled_js |-> compiled_js, props |-> props, engine |-> engine]
            /\ rtResult' = r.result
            /\ lastCtx' = r.left
            /\ open_contexts' = r.open
            /\ guestWrote' = guestWrote \cup (r.wrote \ {"renderSvelte5", "console"})
            /\ firstResult' =
                IF DHas(firstResult, <<engine, compiled_js, props>>) THEN firstResult
                ELSE DPut(firstResult, <<engine, compiled_js, props>>, r.result)
    /\ rtCalls' = rtCalls + 1
    /\ UNCHANGED <<routerVars, resolverVars, renderVars, toolVars, pageVars, lateVars, runtime_file,
                   runtime_code, runtime_exc>>

\* the engine starts or stops failing
SetEngine ==
    /\ runtime_code # "unset"
    /\ \E e \in EngineFaults \ {engine} : engine' = e
    /\ UNCHANGED <<routerVars, resolverVars, unitVars, orchestrator, controller_module,
                   compilerSsr, compilerDom, compiled_components, extracted_css, renders,
                   reqPath, response, stages, ssrArtifact>>

NextRuntime == NewJSRuntime \/ DoRenderComponent \/ SetEngine

SpecRuntime == InitRuntime /\ [][NextRuntime]_vars

\* C11: every render_component call runs in a context of its own that is left again
\* when the call ends; its result is the one the first call with the same engine
\* behaviour, compiled source and props returned; and a component that reads the
\* guest globals and the buffered console errors finds none from an earlier render.
C11_RendersIsolated ==
    /\ open_contexts = 0
    /\ lastCtx.errors = <<>>
    /\ rtCalls > 0 =>
        /\ rtResult = DGet(firstResult, <<rtArgs.engine, rtArgs.compiled_js, rtArgs.props>>)
        /\ (rtArgs.engine = "ok" /\ rtArgs.compiled_js = GuestReads) =>
              rtResult.html = EngineHtml(rtArgs.props) \o <<"undefined", "no errors">>

\* C11 witness: a component reads the globals after an earlier render, on the real
\* runtime, set a guest global and logged a console error
C11_Witness ==
    /\ rtCalls = 2
    /\ runtime_code = "real"
    /\ "leak" \in guestWrote
    /\ rtArgs.engine = "ok"
    /\ rtArgs.compiled_js = GuestReads
    /\ rtResult.html = EngineHtml(rtArgs.props) \o <<"undefined", "no errors">>

\* C12: when the bundled server runtime file cannot be found, the JSRuntime never
\* comes up: its constructor sets no runtime code, substitute or not, and no render
\* runs on it.
C12_MissingRuntimeRaises ==
    ~runtime_file =>
        /\ runtime_code = "unset"
        /\ rtCalls = 0

----------------------------------------------------------------------------
(* Direct calls of the compiler and of the bundler, with their temporary entry    *)
(* files: SpecTools                                                               *)

\* tempfile.NamedTemporaryFile(suffix=..., delete=False, dir=...): a file of a name
\* not in use
CreateTemp(tmp, name) == tmp \cup {name}

\* os.unlink
Unlink(tmp, name) == tmp \ {name}

ResolveExceptions == {"TemplateError", "RecursionError"}

RunCompilerTempMutant(tmp, name, c) ==
    IF c.exc \in ResolveExceptions THEN tmp
    ELSE IF c.exc = "none" THEN Unlink(CreateTemp(tmp, name), name)
    ELSE CreateTemp(tmp, name)

\* the files of _run_compiler, c being what it returns or raises: resolve_imports
\* raises before the script file is created; after that 'finally: os.unlink' runs
\* on return and on raise alike
RunCompilerTemp(tmp, name, c) ==
    IF c.exc \in ResolveExceptions THEN tmp
    ELSE Unlink(CreateTemp(tmp, name), name)

\* the files of _bundle_single_package: none on a cache hit, else the entry file is
\* created and 'finally: os.unlink' removes it whether esbuild exits 0 or not
BundleTemp(tmp, name, st, pkg, target) ==
    IF DHas(st.bundle_cache, CacheKey(pkg, target)) THEN tmp
    ELSE Unlink(CreateTemp(tmp, name), name)

ToolBehaviours == {"ok", "payload_error", "exit_nonzero", "bad_json", "spawn_error"}

\* import Card from 'A.svelte': a component import with no './', '../' or '/'
BareA == Mod("", <<"A.svelte">>)

MainBare == <<Stmt("default", "Card", BareA), Code("main")>>

ToolSources == {MainStyled, MainWithImports, MainOrphan, MainBare}

\* the component files next to the main component: none, A alone, A importing a C
\* that is missing, A importing a C that is there
ToolProjects ==
    {{},
     {<<PathA, <<Code("a")>>>>},
     {<<PathA, <<ImportC("Badge"), Code("a")>>>>},
     {<<PathA, <<ImportC("Badge"), Code("a")>>>>, <<PathC, <<Code("c")>>>>}}

InitTools ==
    /\ RouterIdle
    /\ RuntimeIdle
    /\ files \in ToolProjects
    /\ bundlable \in {{DateFns} \X Targets, AllBundlable}
    /\ setOrder = <<DateFns, DayJs, BareA>>
    /\ component_cache = {}
    /\ dependency_graph = {}
    /\ bundle_cache = {}
    /\ runs = {}
    /\ hits = {}
    /\ calls = 0
    /\ writes = 0
    /\ lastOp = "none"
    /\ lastArgs = NoArgs
    /\ lastResult = NoResult
    /\ repeated = FALSE
    /\ orchestrator = "TemplateRenderer"
    /\ controller_module = NoController
    /\ compilerSsr \in ToolBehaviours
    /\ compilerDom \in ToolBehaviours
    /\ engine = "ok"
    /\ compiled_components = {}
    /\ extracted_css = {}
    /\ renders = 0
    /\ reqPath = <<>>
    /\ response = NoResponse
    /\ stages = <<>>
    /\ ssrArtifact = NoArtifact
    /\ ToolIdle
    /\ PageIdle
    /\ LateIdle

\* a call of compile_ssr or compile_dom
DoCompile ==
    /\ toolCalls < MaxToolCalls
    /\ \E src \in ToolSources, target \in {"ssr", "dom"} :
          \E c \in {RunCompiler(src, MainPath, target, Caches)} :
              /\ SetCaches(c.st)
              /\ temp_files' = RunCompilerTemp(temp_files, <<"tmp", toolCalls, ".mjs">>, c)
              /\ toolBehaviour' = IF target = "ssr" THEN compilerSsr ELSE compilerDom
              /\ toolSrc' = src
              /\ toolResult' = [exc |-> c.exc, msg |-> c.msg, artifact |-> c.artifact]
    /\ toolOp' = "compile"
    /\ toolCalls' = toolCalls + 1
    /\ UNCHANGED <<routerVars, renderVars, runtimeVars, pageVars, lateVars, files, bundlable, setOrder, calls,
                   writes, lastOp, lastArgs, lastResult, repeated>>

\* a call of _bundle_single_package
DoBundlePackage ==
    /\ toolCalls < MaxToolCalls
    /\ \E pkg \in Packages, target \in Targets :
          \E r \in {BundleSinglePackage(pkg, target, Caches, bundlable)} :
              /\ SetCaches(r.st)
              /\ temp_files' = BundleTemp(temp_files, <<"tmp", toolCalls, ".js">>, Caches,
                                          pkg, target)
              /\ toolBehaviour' = IF DHas(bundle_cache, CacheKey(pkg, target)) THEN "cached"
                                  ELSE IF <<pkg, target>> \in bundlable THEN "ok"
                                  ELSE "exit_nonzero"
              /\ toolResult' = [exc |-> r.exc, msg |-> <<>>,
                                artifact |-> [NoArtifact EXCEPT !.js = r.code]]
              /\ toolSrc' = <<>>
    /\ toolOp' = "bundle"
    /\ toolCalls' = toolCalls + 1
    /\ UNCHANGED <<routerVars, renderVars, runtimeVars, pageVars, lateVars, files, bundlable, setOrder, calls,
                   writes, lastOp, lastArgs, lastResult, repeated>>

NextTools == DoCompile \/ DoBundlePackage

SpecTools == InitTools /\ [][NextTools]_vars

\* the compiler process of the last compile call was run and failed in one of the
\* three ways: non-zero exit, exit 0 with invalid JSON, exit 0 with a failure payload
CompilerProcessFailed ==
    /\ toolOp = "compile"
    /\ toolResult.exc \notin ResolveExceptions
    /\ toolBehaviour \in {"exit_nonzero", "bad_json", "payload_error"}

\* C13: when the compiler process fails in one of the three ways, the compile call
\* returns, it does not raise, and what it returns is an artifact with success false
\* that carries the error message.
C13_CompilerFailureIsReturned ==
    CompilerProcessFailed =>
        /\ toolResult.exc = "none"
        /\ ~toolResult.artifact.success
        /\ toolResult.artifact.error # <<>>

----------------------------------------------------------------------------
(* Render pipeline: controller and browser-compile failures, under SpecRender *)

\* C15: when the template was read and the controller fails (its module is missing,
\* it has no getContext, or getContext raises), the controller stage still ends with
\* empty data and the request goes on to the server compile; the failure gives no
\* error response of its own.
C15_ControllerFailureDegrades ==
    (/\ renders > 0
     /\ StageOutcome("load", "ok")
     /\ controller_module.kind \in {"missing", "plain", "raises"})
    => (/\ StageOutcome("controller", "ok")
        /\ StageReached("compile_ssr"))

\* C16: when the server compile succeeded and the engine works, a browser-target
\* compile that fails leaves the response at 200 OK with the server markup in the
\* mount element.
C16_BrowserCompileSoftFails ==
    (/\ renders > 0
     /\ StageOutcome("compile_ssr", "ok")
     /\ controller_module.kind \in {"plain", "context"}
     /\ engine = "ok"
     /\ compilerDom # "ok")
    => (/\ response.status = "200 OK"
        /\ Mount(response.html) = EngineHtml(controller_module.props))

\* some component import of the source, or of a component it imports at any depth,
\* names a file that does not exist
MissingImport(fs, src) == \E p \in ImportClosure(fs, src) : ~DHas(fs, p)

\* C17: a compile call for a source with a component import, at any depth, of a file
\* that does not exist raises TemplateError out of resolve_imports, so node is not
\* started and no artifact is made, and neither orchestrator answers it with 200.
C17_MissingImportRaises ==
    (toolOp = "compile" /\ MissingImport(files, toolSrc))
    => (/\ toolResult.exc = "TemplateError"
        /\ toolResult.artifact = NoArtifact
        /\ ExceptClauses(toolResult.exc, toolResult.msg).status # "200 OK"
        /\ AppReturns(toolResult.exc, toolResult.msg).status # "200 OK")

----------------------------------------------------------------------------
(* NPMBundler: a failed package among the imports, under SpecResolver *)

ImportKinds == {"named", "default", "ns", "side"}

\* the source still holds an import statement of the package
ImportsPackage(src, pkg) ==
    \E i \in 1..Len(src) : src[i].kind \in ImportKinds /\ src[i].mod = pkg

\* C18: after a bundle_npm_packages call, for every package imported by the source:
\* if esbuild failed for it, the returned source holds no import of it and it is not
\* among the bundled packages; if it was bundled, each of its imports has become a
\* read of the package registry and none is left as an import.
C18_FailedPackageIsolated ==
    lastOp = "bundle" =>
        \A pkg \in Packages :
            ImportsPackage(lastArgs.src, pkg) =>
                /\ ~ImportsPackage(lastResult.src, pkg)
                /\ DHas(lastResult.pkgs, pkg) =>
                      \A i \in 1..Len(lastArgs.src) :
                          (lastArgs.src[i].mod = pkg
                           /\ lastArgs.src[i].kind \in {"named", "default", "ns"})
                          => \E j \in 1..Len(lastResult.src) :
                                 lastResult.src[j] = RewriteImport(lastArgs.src[i])

----------------------------------------------------------------------------
(* Render pipeline: the shape of failure responses, under SpecRender *)

\* the html is a whole document: it opens with the doctype
IsDocument(html) == html # <<>> /\ html[1] = "<!DOCTYPE html>"

\* C19: every response whose status is not 200 OK is a complete HTML document, not an
\* empty body and not a bare fragment.
C19_FailureIsDocument ==
    (renders > 0 /\ response.status # "200 OK") => IsDocument(response.html)

----------------------------------------------------------------------------
(* _generate_html_page on its own: SpecPage *)

\* what a browser takes out of a document: the text of the script element that opens
\* at token i runs up to the first '</script>' after it
ScriptEnd(html, i) ==
    IF \E k \in (i + 1)..Len(html) : html[k] = "</script>"
    THEN CHOOSE k \in (i + 1)..Len(html) :
             html[k] = "</script>" /\ \A m \in (i + 1)..(k - 1) : html[m] # "</script>"
    ELSE Len(html) + 1

PropsBlocks(html) == {i \in 1..Len(html) : html[i] = PropsOpen}

\* the text of the props block
PropsBlockText(html) ==
    LET i == CHOOSE k \in PropsBlocks(html) : \A m \in PropsBlocks(html) : k <= m
    IN  SubSeq(html, i + 1, ScriptEnd(html, i) - 1)

\* the document after the end of the props block
AfterPropsBlock(html) ==
    LET i == CHOOSE k \in PropsBlocks(html) : \A m \in PropsBlocks(html) : k <= m
    IN  SubSeq(html, ScriptEnd(html, i) + 1, Len(html))

\* what JSON.parse gives for a text that is no JSON object of strings
NotJson == << <<"SyntaxError", "SyntaxError">> >>

JsonUnescape(t) == IF t = "\\\"" THEN "\"" ELSE IF t = "\\\\" THEN "\\" ELSE t

RECURSIVE JsonEntries(_)
\* the entries "key": "value", ... of a JSON object, read back
JsonEntries(toks) ==
    IF toks = <<>> THEN <<>>
    ELSE IF Len(toks) < 7 THEN NotJson
    ELSE IF \/ toks[1] # "\"" \/ toks[3] # "\"" \/ toks[4] # ":" \/ toks[5] # "\""
            \/ toks[7] # "\"" \/ toks[2] = "\"" \/ toks[6] = "\""
    THEN NotJson
    ELSE LET entry == <<JsonUnescape(toks[2]), JsonUnescape(toks[6])>>
         IN  IF Len(toks) = 7 THEN <<entry>>
             ELSE IF toks[8] # "," \/ Len(toks) = 8 THEN NotJson
             ELSE LET rest == JsonEntries(SubSeq(toks, 9, Len(toks)))
                  IN  IF rest = NotJson THEN NotJson ELSE <<entry>> \o rest

\* JSON.parse of the text of the props block
JsonLoads(toks) ==
    IF Len(toks) < 2 \/ toks[1] # "{" \/ toks[Len(toks)] # "}" THEN NotJson
    ELSE JsonEntries(SubSeq(toks, 2, Len(toks) - 1))

PropKeys == {"title", "body"}

\* props values: plain text, and text with the characters that matter inside a script
\* element and inside a JSON string
PropValues == {"T", "<", "<b>x</b>", "</script>", "\"", "\\"}

PageProps ==
    {<<>>} \cup {<< <<k, v>> >> : k \in PropKeys, v \in PropValues}
    \cup {<< <<"title", v>>, <<"body", w>> >> : v \in PropValues, w \in PropValues}

PageContents == {<<"<h1>", "T", "</h1>">>, <<"<p>", "</p>">>, <<>>}

HydrationJs == <<"console.error('Client compilation failed');">>

InitPage ==
    /\ RouterIdle
    /\ ResolverIdle
    /\ RenderIdle
    /\ RuntimeIdle
    /\ ToolIdle
    /\ PageIdle
    /\ LateIdle

\* a call of _generate_html_page
DoGeneratePage ==
    /\ pageCalls < MaxPages
    /\ \E content \in PageContents, props \in PageProps :
          /\ pageArgs' = [content |-> content, props |-> props, hydration_js |-> HydrationJs]
          /\ pageHtml' = GenerateHtmlPage(content, props, HydrationJs, <<>>, Registries)
    /\ pageCalls' = pageCalls + 1
    /\ UNCHANGED <<routerVars, resolverVars, renderVars, runtimeVars, toolVars, lateVars>>

NextPage == DoGeneratePage

SpecPage == InitPage /\ [][NextPage]_vars

\* C20: a generated document has exactly one props block, the text of the block
\* parses back to exactly the props it was generated for, and what follows the block
\* is the hydration script and the end of the body: no props string ends the block
\* early or puts markup into the document.
C20_PropsBlockRoundTrips ==
    pageCalls > 0 =>
        /\ Cardinality(PropsBlocks(pageHtml)) = 1
        /\ JsonLoads(PropsBlockText(pageHtml)) = pageArgs.props
        /\ AfterPropsBlock(pageHtml) =
              <<"<script type=\"module\">">> \o pageArgs.hydration_js
              \o <<"</script>", "</body>">>

\* ---------------------------------------------------------------------------
\* Custom head scripts: _add_custom_scripts and _sanitize_js. Text is modelled
\* here character by character (a string is a sequence of one-character
\* strings), since the sanitiser works on substrings.

UpperCase == <<"A", "B", "C", "D", "E", "F", "G", "H", "I", "J", "K", "L", "M", "N", "O", "P", "Q", "R", "S", "T", "U", "V", "W", "X", "Y", "Z">>

LowerCase == <<"a", "b", "c", "d", "e", "f", "g", "h", "i", "j", "k", "l", "m", "n", "o", "p", "q", "r", "s", "t", "u", "v", "w", "x", "y", "z">>

\* str.lower() on one character
Lower(c) ==
    IF \E i \in 1..Len(UpperCase) : UpperCase[i] = c
    THEN LowerCase[CHOOSE i \in 1..Len(UpperCase) : UpperCase[i] = c]
    ELSE c

LowerStr(s) == [i \in 1..Len(s) |-> Lower(s[i])]

\* the text p stands in s at position i
StartsAt(s, p, i) ==
    /\ i >= 1
    /\ i + Len(p) - 1 <= Len(s)
    /\ \A k \in 1..Len(p) : s[i + k - 1] = p[k]

\* the positions of s where p stands
Occurrences(s, p) == {i \in 1..Len(s) : StartsAt(s, p, i)}

\* Python's "p in s"
InStr(p, s) == Occurrences(s, p) # {}

\* str.replace(p, r): every occurrence, left to right, without overlap
RECURSIVE ReplaceFrom(_, _, _, _)
ReplaceFrom(s, p, r, i) ==
    IF i > Len(s) THEN <<>>
    ELSE IF StartsAt(s, p, i) THEN r \o ReplaceFrom(s, p, r, i + Len(p))
    ELSE <<s[i]>> \o ReplaceFrom(s, p, r, i + 1)

\* a replace that stops after the first occurrence
RECURSIVE ReplaceFirst(_, _, _, _)
ReplaceFirst(s, p, r, i) ==
    IF i > Len(s) THEN <<>>
    ELSE IF StartsAt(s, p, i) THEN r \o SubSeq(s, i + Len(p), Len(s))
    ELSE <<s[i]>> \o ReplaceFirst(s, p, r, i + 1)

StrReplaceMutant(s, p, r) == ReplaceFirst(s, p, r, 1)

StrReplace(s, p, r) == ReplaceFrom(s, p, r, 1)

Whitespace == {" ", "\n", "\t"}

\* str.strip()
RECURSIVE Strip(_)
Strip(s) ==
    IF s = <<>> THEN s
    ELSE IF Head(s) \in Whitespace THEN Strip(Tail(s))
    ELSE IF s[Len(s)] \in Whitespace THEN Strip(SubSeq(s, 1, Len(s) - 1))
    ELSE s

\* dangerous_patterns, in the order of the list
DangerousPatterns == <<
    <<"e", "v", "a", "l", "(">>,
    <<"F", "u", "n", "c", "t", "i", "o", "n", "(">>,
    <<"s", "e", "t", "T", "i", "m", "e", "o", "u", "t", "(">>,
    <<"s", "e", "t", "I", "n", "t", "e", "r", "v", "a", "l", "(">>,
    <<"d", "o", "c", "u", "m", "e", "n", "t", ".", "w", "r", "i", "t", "e", "(">>,
    <<"i", "n", "n", "e", "r", "H", "T", "M", "L">>,
    <<"o", "u", "t", "e", "r", "H", "T", "M", "L">>,
    <<"d", "o", "c", "u", "m", "e", "n", "t", ".", "c", "o", "o", "k", "i", "e">>,
    <<"l", "o", "c", "a", "l", "S", "t", "o", "r", "a", "g", "e">>,
    <<"s", "e", "s", "s", "i", "o", "n", "S", "t", "o", "r", "a", "g", "e">> >>

MarkerOpen == <<"/", "*", " ", "B", "L", "O", "C", "K", "E", "D", ":", " ">>

MarkerClose == <<" ", "*", "/">>

\* f'/* BLOCKED: {pattern} */'
Marker(p) == MarkerOpen \o p \o MarkerClose

\* _sanitize_js: for each pattern in turn, when the lowered pattern is in the
\* lowered text, replace the pattern as written
RECURSIVE SanitizeFrom(_, _)
SanitizeFrom(sanitized, n) ==
    IF n > Len(DangerousPatterns) THEN sanitized
    ELSE LET pattern == DangerousPatterns[n]
         IN  SanitizeFrom(
                 IF InStr(LowerStr(pattern), LowerStr(sanitized))
                 THEN StrReplace(sanitized, pattern, Marker(pattern))
                 ELSE sanitized,
                 n + 1)

SanitizeJs(js_code) == SanitizeFrom(js_code, 1)

ScriptOpen == <<" ", " ", " ", " ", "<", "s", "c", "r", "i", "p", "t", ">">>

ScriptClose == <<" ", " ", " ", " ", "<", "/", "s", "c", "r", "i", "p", "t", ">">>

ScriptIndent == <<" ", " ", " ", " ", " ", " ", " ", " ">>

\* the lines _add_custom_scripts appends for the scripts of a list, in order; an
\* entry is [str |-> is it a string, text |-> its characters]
RECURSIVE CustomLines(_)
CustomLines(scripts) ==
    IF scripts = <<>> THEN <<>>
    ELSE LET script == Head(scripts)
         IN  (IF script.str /\ Strip(script.text) # <<>>
              THEN <<ScriptIndent \o SanitizeJs(Strip(script.text))>>
              ELSE <<>>) \o CustomLines(Tail(scripts))

\* _add_custom_scripts(head_parts, script_data); custom is
\* [list |-> is it a list, items |-> its entries]
AddCustomScripts(head_parts, custom) ==
    IF custom.list /\ custom.items # <<>>
    THEN head_parts \o <<ScriptOpen>> \o CustomLines(custom.items) \o <<ScriptClose>>
    ELSE head_parts

\* the pieces custom scripts are put together from: blacklisted tokens, halves of
\* tokens, a token in another case, harmless code and blanks
ScriptChunks == {
    <<"e", "v", "a", "l", "(">>,
    <<"i", "n", "n", "e", "r", "H", "T", "M", "L">>,
    <<"d", "o", "c", "u", "m", "e", "n", "t", ".", "c", "o", "o", "k", "i", "e">>,
    <<"l", "o", "c", "a", "l", "S", "t", "o", "r", "a", "g", "e">>,
    <<"F", "u", "n", "c", "t", "i", "o", "n", "(">>,
    <<"E", "V", "A", "L", "(">>,
    <<"e", "v">>,
    <<"a", "l", "(">>,
    <<"x", "=", "1", ";">>,
    <<" ">>,
    <<"i", "n", "n", "e", "r">>,
    <<"H", "T", "M", "L">> }

ScriptTexts ==
    ScriptChunks \cup {a \o b : a \in ScriptChunks, b \in ScriptChunks}

StrItem(text) == [str |-> TRUE, text |-> text]

NotStrItem == [str |-> FALSE, text |-> <<>>]

\* the custom entries of the metadata: lists of one or two entries, the empty
\* list, and a value that is not a list
CustomValues ==
    {[list |-> TRUE, items |-> <<StrItem(t)>>] : t \in ScriptTexts}
    \cup {[list |-> TRUE, items |-> <<StrItem(t), StrItem(u)>>] :
             t \in {<<"e", "v", "a", "l", "(">>, <<" ", " ", "x", "=", "1", ";", " ">>}, u \in ScriptChunks}
    \cup {[list |-> TRUE, items |-> <<NotStrItem, StrItem(t)>>] : t \in ScriptChunks}
    \cup {[list |-> TRUE, items |-> <<>>], [list |-> FALSE, items |-> <<>>]}

InitHead ==
    /\ RouterIdle
    /\ ResolverIdle
    /\ RenderIdle
    /\ RuntimeIdle
    /\ ToolIdle
    /\ PageIdle
    /\ HeadIdle
    /\ InvIdle
    /\ SkewIdle
    /\ HydrateIdle
    /\ RaceIdle

\* a call of _add_custom_scripts on an empty head_parts
DoAddCustomScripts ==
    /\ headCalls < MaxHeadCalls
    /\ \E custom \in CustomValues :
          /\ headArgs' = custom
          /\ headParts' = AddCustomScripts(<<>>, custom)
    /\ headCalls' = headCalls + 1
    /\ UNCHANGED <<routerVars, resolverVars, renderVars, runtimeVars, toolVars, pageVars,
                   invVars, skewVars, hydrateVars, raceVars>>

NextHead == DoAddCustomScripts

SpecHead == InitHead /\ [][NextHead]_vars

\* the scripts of a call that are emitted, stripped
RECURSIVE EmittedInputs(_)
EmittedInputs(scripts) ==
    IF scripts = <<>> THEN <<>>
    ELSE (IF Head(scripts).str /\ Strip(Head(scripts).text) # <<>>
          THEN <<Strip(Head(scripts).text)>> ELSE <<>>) \o EmittedInputs(Tail(scripts))

\* position i of a line lies in a blocked-marker comment of pattern p
InsideMarker(line, p, i) == StartsAt(line, Marker(p), i - Len(MarkerOpen))

InvalidateProjects ==
    Projects
    \cup {{<<PathA, <<ImportC("Badge"), Code("a")>>>>,
           <<PathC, <<ImportB("Icon"), Code("c")>>>>,
           <<PathB, <<Code("b")>>>>}}

InvalidatePaths == {MainPath, PathA, PathB, PathC}

InitInvalidate ==
    /\ RouterIdle
    /\ RenderIdle
    /\ UnitIdle
    /\ files \in InvalidateProjects
    /\ bundlable = AllBundlable
    /\ setOrder = <<DateFns, DayJs>>
    /\ component_cache = {}
    /\ dependency_graph = {}
    /\ bundle_cache = {}
    /\ runs = {}
    /\ hits = {}
    /\ calls = 0
    /\ writes = 0
    /\ lastOp = "none"
    /\ lastArgs = NoArgs
    /\ lastResult = NoResult
    /\ repeated = FALSE

\* a call of invalidate_cache_for_file
DoInvalidate ==
    /\ invCalls < MaxInvalidations
    /\ \E path \in InvalidatePaths :
          /\ invPath' = path
          /\ component_cache' = InvalidateCacheForFile(Caches, path).component_cache
          /\ dependency_graph' = InvalidateCacheForFile(Caches, path).dependency_graph
    /\ invBefore' = [component_cache |-> component_cache,
                     dependency_graph |-> dependency_graph]
    /\ invCalls' = invCalls + 1
    /\ lastOp' = "invalidate"
    /\ repeated' = FALSE
    /\ UNCHANGED <<routerVars, renderVars, runtimeVars, toolVars, pageVars, headVars,
                   skewVars, hydrateVars, raceVars, files, bundlable, setOrder, bundle_cache, runs, hits, calls, writes,
                   lastArgs, lastResult>>

NextInvalidate == DoResolve \/ DoInvalidate

SpecInvalidate == InitInvalidate /\ [][NextInvalidate]_vars

\* the files with a direct dependency edge to path
DirectParents(graph, path) == {e[1] : e \in {g \in graph : path \in g[2]}}

\* C22: after invalidate(path) the component cache is the cache of before
\* without the entry of path and without the entries of the files that have a
\* direct dependency edge to path; every other entry, those of grandparents
\* included, is as before, and so is the whole dependency graph.
C22_InvalidateDirectOnly ==
    lastOp = "invalidate" =>
        /\ component_cache =
              {e \in invBefore.component_cache :
                  /\ e[1] # invPath
                  /\ e[1] \notin DirectParents(invBefore.dependency_graph, invPath)}
        /\ dependency_graph = invBefore.dependency_graph

\* C22 witness: B was invalidated while A, C and B were cached with the edges
\* A -> C and C -> B; the entries of B and C are gone, the entry of A is kept
C22_Witness ==
    /\ lastOp = "invalidate"
    /\ invPath = PathB
    /\ {PathA, PathB, PathC} \subseteq DKeys(invBefore.component_cache)
    /\ PathA \in DirectParents(dependency_graph, PathC)
    /\ PathC \in DirectParents(dependency_graph, PathB)
    /\ PathA \notin DirectParents(dependency_graph, PathB)
    /\ DKeys(component_cache) = {PathA}

\* ---------------------------------------------------------------------------
\* Cyclic imports (specification SpecResolver)

\* a file of the import closure imports itself, directly or through others
Cyclic(fs, src) ==
    \E p \in ImportClosure(fs, src) :
        DHas(fs, p) /\ p \in ClosureFrom(fs, DirectImports(DGet(fs, p), p), {})

\* every file of the import closure exists
ClosureExists(fs, src) == \A p \in ImportClosure(fs, src) : DHas(fs, p)

StageOrder ==
    <<"match", "load", "controller", "compile_ssr", "render_component",
      "compile_dom", "transform", "assemble">>

StageIndex(name) == CHOOSE k \in 1..Len(StageOrder) : StageOrder[k] = name

\* the outcomes after which the orchestrator returns or raises
TerminalOutcomes ==
    {<<"match", "none">>, <<"load", "missing">>, <<"controller", "raised">>,
     <<"compile_ssr", "failed">>, <<"compile_ssr", "raised">>,
     <<"render_component", "error">>, <<"render_component", "raised">>,
     <<"compile_dom", "raised">>, <<"transform", "raised">>}

\* C24: the stages of a request run in the fixed order, the router first and
\* once, each stage at most once, and nothing runs after a stage that failed:
\* no controller and no compiler when the route or the template is missing,
\* no engine call and no browser compile after a failed server compile.
C24_StagesInOrder ==
    renders > 0 =>
        /\ Len(stages) >= 1
        /\ stages[1][1] = "match"
        /\ \A i \in 1..Len(stages) : \E k \in 1..Len(StageOrder) : StageOrder[k] = stages[i][1]
        /\ \A i \in 1..Len(stages) : \A j \in 1..Len(stages) :
              i < j => StageIndex(stages[i][1]) < StageIndex(stages[j][1])
        /\ \A i \in 1..Len(stages) : stages[i] \in TerminalOutcomes => i = Len(stages)
        /\ \A i \in 2..Len(stages) :
              StageIndex(stages[i][1]) <= 5 =>
                  StageIndex(stages[i][1]) = StageIndex(stages[i - 1][1]) + 1
        /\ (StageOutcome("match", "none") \/ StageOutcome("load", "missing"))
              => (~StageReached("controller") /\ ~StageReached("compile_ssr"))
        /\ (StageOutcome("compile_ssr", "failed") \/ StageOutcome("compile_ssr", "raised"))
              => (~StageReached("render_component") /\ ~StageReached("compile_dom"))

\* C24 witness: a request went through match, load, controller and server
\* compile in this order and ended at the engine call
C24_Witness ==
    /\ renders > 0
    /\ Len(stages) = 5
    /\ \A k \in 1..5 : stages[k][1] = StageOrder[k]
    /\ \A k \in 1..4 : stages[k][2] = "ok"
    /\ stages[5] \in TerminalOutcomes

\* ---------------------------------------------------------------------------
\* The two compiles of one render: compile_ssr and then compile_dom of the same
\* source on one SvelteCompiler, as render_template and _compile_for_hydration
\* call them, with file writes and cache invalidations in between
\* (specification SpecSkew).

\* the imported_components _run_compiler puts into the compiler's input
SubmittedComponents(r) == IF r.exc = "none" THEN r.comps ELSE {}

SkewSources == MainSources \cup {MainBare}

InitSkew ==
    /\ RouterIdle
    /\ RenderIdle
    /\ RuntimeIdle
    /\ ToolIdle
    /\ PageIdle
    /\ LateIdle
    /\ files \in Projects
    /\ bundlable = AllBundlable
    /\ setOrder = <<DateFns, DayJs, BareA>>
    /\ component_cache = {}
    /\ dependency_graph = {}
    /\ bundle_cache = {}
    /\ runs = {}
    /\ hits = {}
    /\ calls = 0
    /\ writes = 0
    /\ lastOp = "none"
    /\ lastArgs = NoArgs
    /\ lastResult = NoResult
    /\ repeated = FALSE

\* one _run_compiler call: resolve_imports, then the node process
SkewCompile(src, target, env) ==
    \E r \in {ResolveImports(src, MainPath, env, Caches, files, bundlable, setOrder,
                             RecursionLimit)} :
        \E c \in {AfterResolve(r, src, target)} :
            /\ SetCaches(c.st)
            /\ skPhase' = IF c.exc = "none" /\ c.artifact.success THEN target ELSE "failed"
            /\ skSsr' = IF target = "ssr" THEN SubmittedComponents(r) ELSE skSsr
            /\ skDom' = IF target = "dom" THEN SubmittedComponents(r) ELSE skDom
            /\ lastOp' = "compile_" \o target
            /\ repeated' = FALSE
            /\ UNCHANGED <<routerVars, renderVars, runtimeVars, toolVars, pageVars,
                           headVars, invVars, hydrateVars, raceVars, files, bundlable,
                           setOrder,
                           calls, writes,
                           lastArgs, lastResult>>

\* compile_ssr of the source the render read from the template file
DoCompileSsr ==
    /\ skPhase = "idle"
    /\ \E src \in SkewSources :
          /\ skSrc' = src
          /\ SkewCompile(src, "ssr", "node")

\* compile_dom of the same source, after a compile_ssr that succeeded
DoCompileDom ==
    /\ skPhase = "ssr"
    /\ skSrc' = skSrc
    /\ SkewCompile(skSrc, "dom", "browser")

NextSkew == DoCompileSsr \/ DoCompileDom \/ WriteFile \/ DoInvalidate

SpecSkew == InitSkew /\ [][NextSkew]_vars

\* C25: when both compiles of a render have run, the imported component
\* sources given to the dom compile are those given to the ssr compile, also
\* when a file was written or a path invalidated between the two.
C25_BothCompilesSameSources ==
    skPhase = "dom" => skDom = skSsr

\* C28: a component import written without './', '../' or '/' whose file is in
\* the directory of the importing file is loaded and is in the imported
\* components under its local name, as an import written with './' is.
C28_BareRelativeResolved ==
    (/\ lastOp = "compile_ssr"
     /\ skSrc = MainBare
     /\ DHas(files, PathA))
    => (/\ skPhase = "ssr"
        /\ DHas(skSsr, "Card")
        /\ DHas(component_cache, PathA))

\* ---------------------------------------------------------------------------
\* Failures of the execution of the server artifact (specification SpecRuntime)

\* the call ran a component that throws, or on an engine that fails
ExecutionFailed ==
    \/ rtArgs.engine # "ok"
    \/ HasStmt(rtArgs.compiled_js, "throw")
    \/ HasStmt(rtArgs.compiled_js, "render throws")

\* C26: when the execution of the server artifact fails, by a fault of the
\* engine or by a throw of the component that the guest code traps, the
\* result render_component returns carries the error that makes the
\* orchestrator end the request as a render error, and not html to go on with.
C26_ExecuteFailureIsError ==
    (rtCalls > 0 /\ ExecutionFailed) => rtResult.hasError

\* ---------------------------------------------------------------------------
\* The asset registries: calls of TemplateRenderer._compile_for_hydration for
\* several templates on one renderer (specification SpecHydrate).

HomeIndex == <<"home", "/", "index", ".svelte">>
PostsIndex == <<"posts", "/", "index", ".svelte">>
HomeShow == <<"home", "/", "show", ".svelte">>

HydrateTemplates == {HomeIndex, PostsIndex, HomeShow}

HydrateSources == {MainStyled, MainWithImports, MainOrphan}

\* f"{component_name}.js" with component_name = template_path.stem
ComponentKey(template) == Stem(template) \o ".js"

InitHydrate ==
    /\ RouterIdle
    /\ RuntimeIdle
    /\ ToolIdle
    /\ PageIdle
    /\ HeadIdle
    /\ InvIdle
    /\ SkewIdle
    /\ HydrateIdle
    /\ RaceIdle
    /\ files \in RenderProjects
    /\ bundlable = AllBundlable
    /\ setOrder = <<DateFns, DayJs>>
    /\ component_cache = {}
    /\ dependency_graph = {}
    /\ bundle_cache = {}
    /\ runs = {}
    /\ hits = {}
    /\ calls = 0
    /\ writes = 0
    /\ lastOp = "none"
    /\ lastArgs = NoArgs
    /\ lastResult = NoResult
    /\ repeated = FALSE
    /\ orchestrator = "TemplateRenderer"
    /\ controller_module = NoController
    /\ compilerSsr = "ok"
    /\ compilerDom \in {"ok", "payload_error", "bad_json"}
    /\ engine = "ok"
    /\ compiled_components = {}
    /\ extracted_css = {}
    /\ renders = 0
    /\ reqPath = <<>>
    /\ response = NoResponse
    /\ stages = <<>>
    /\ ssrArtifact = NoArtifact

\* a call of _compile_for_hydration(svelte_source, template_path, props, doc_meta)
DoCompileForHydration ==
    /\ hyCalls < MaxHydrations
    /\ \E src \in HydrateSources, template \in HydrateTemplates :
          \E h \in {CompileForHydration(src, template, Props, <<>>, Caches, Registries)} :
              /\ SetCaches(h.st)
              /\ compiled_components' = h.reg.compiled_components
              /\ extracted_css' = h.reg.extracted_css
              /\ hyArgs' = [src |-> src, template |-> template]
              /\ hyResult' = [exc |-> h.exc, js |-> h.js]
              /\ hyStored' = IF h.trace[1] = <<"compile_dom", "ok">>
                             THEN hyStored \cup {template} ELSE hyStored
              /\ hyOwner' = IF h.trace[1] = <<"compile_dom", "ok">>
                            THEN DPut(hyOwner, ComponentKey(template), template)
                            ELSE hyOwner
    /\ hyBefore' = Registries
    /\ hyCalls' = hyCalls + 1
    /\ UNCHANGED <<routerVars, runtimeVars, toolVars, pageVars, headVars, invVars,
                   skewVars, raceVars, files, bundlable, setOrder, calls, writes, lastOp,
                   lastArgs,
                   lastResult, repeated, orchestrator, controller_module, compilerSsr,
                   compilerDom, engine, renders, reqPath, response, stages, ssrArtifact>>

NextHydrate == DoCompileForHydration

SpecHydrate == InitHydrate /\ [][NextHydrate]_vars

\* C27: when the work of a request does not end in success, the two asset
\* registries are as they were before it, whichever step failed; here for the
\* hydration step of the request ending in an exception.
C27_FailureLeavesRegistries ==
    (hyCalls > 0 /\ hyResult.exc # "none") => Registries = hyBefore

\* C30: every template a browser artifact was stored for has a registry entry
\* of its own, last written for this template and not for another one.
C30_OneEntryPerTemplate ==
    /\ Cardinality(DKeys(compiled_components)) = Cardinality(hyStored)
    /\ \A t \in hyStored :
          /\ DHas(hyOwner, ComponentKey(t))
          /\ DGet(hyOwner, ComponentKey(t)) = t

\* ---------------------------------------------------------------------------
\* Concurrent requests in NPMBundler._bundle_single_package: the look-up in
\* bundle_cache, the esbuild run and the store are separate steps of each
\* request, and nothing locks the cache (specification SpecRace).

\* an esbuild whose output differs from run to run
RunEsbuildMutant(pkg, target, st, env) ==
    IF <<pkg, target>> \in env
    THEN [exc |-> "none",
          code |-> BundleText(pkg, target) \o <<Count(st.runs, CacheKey(pkg, target))>>]
    ELSE [exc |-> "CompilationError", code |-> <<>>]

\* subprocess.run of esbuild on the entry file: the bundle on exit 0, else
\* CompilationError
RunEsbuild(pkg, target, st, env) ==
    IF <<pkg, target>> \in env
    THEN [exc |-> "none", code |-> BundleText(pkg, target)]
    ELSE [exc |-> "CompilationError", code |-> <<>>]

InitRace ==
    /\ RouterIdle
    /\ RenderIdle
    /\ UnitIdle
    /\ files = {}
    /\ bundlable \in {{DateFns} \X Targets, AllBundlable}
    /\ setOrder = <<DateFns, DayJs>>
    /\ component_cache = {}
    /\ dependency_graph = {}
    /\ bundle_cache = {}
    /\ runs = {}
    /\ hits = {}
    /\ calls = 0
    /\ writes = 0
    /\ lastOp = "none"
    /\ lastArgs = NoArgs
    /\ lastResult = NoResult
    /\ repeated = FALSE

RaceFrame ==
    UNCHANGED <<routerVars, renderVars, runtimeVars, toolVars, pageVars, headVars,
                invVars, skewVars, hydrateVars, files, bundlable, setOrder,
                component_cache, dependency_graph, calls, writes, lastOp, lastArgs,
                lastResult, repeated>>

\* request t enters _bundle_single_package and looks the key up in bundle_cache
RaceCheck(t) ==
    /\ rcPc[t] = "idle"
    /\ \E pkg \in Packages, target \in Targets :
          LET key == CacheKey(pkg, target)
          IN  /\ rcArgs' = [rcArgs EXCEPT ![t] = key]
              /\ IF DHas(bundle_cache, key)
                 THEN /\ rcPc' = [rcPc EXCEPT ![t] = "done"]
                      /\ rcCode' = [rcCode EXCEPT ![t] = DGet(bundle_cache, key)]
                      /\ hits' = Incr(hits, key)
                 ELSE /\ rcPc' = [rcPc EXCEPT ![t] = "run"]
                      /\ UNCHANGED <<rcCode, hits>>
    /\ UNCHANGED <<bundle_cache, runs>>
    /\ RaceFrame

\* request t runs esbuild
RaceRun(t) ==
    /\ rcPc[t] = "run"
    /\ \E r \in {RunEsbuild(rcArgs[t][1], rcArgs[t][2], Caches, bundlable)} :
          /\ rcPc' = [rcPc EXCEPT ![t] = IF r.exc = "none" THEN "store" ELSE "raised"]
          /\ rcCode' = [rcCode EXCEPT ![t] = r.code]
    /\ runs' = Incr(runs, rcArgs[t])
    /\ UNCHANGED <<bundle_cache, hits, rcArgs>>
    /\ RaceFrame

\* request t writes the bundle into bundle_cache and returns it
RaceStore(t) ==
    /\ rcPc[t] = "store"
    /\ bundle_cache' = DPut(bundle_cache, rcArgs[t], rcCode[t])
    /\ rcPc' = [rcPc EXCEPT ![t] = "done"]
    /\ UNCHANGED <<runs, hits, rcArgs, rcCode>>
    /\ RaceFrame

NextRace == \E t \in Threads : RaceCheck(t) \/ RaceRun(t) \/ RaceStore(t)

SpecRace == InitRace /\ [][NextRace]_vars

\* the requests that asked for a key and got past the look-up
Requested(key) == {t \in Threads : rcPc[t] # "idle" /\ rcArgs[t] = key}

\* C29, as stated: for requests that run at the same time and ask for the same
\* module and target, esbuild is run at most once.
C29_ToolchainOncePerPair ==
    \A key \in bundlable : Count(runs, key) <= 1

\* C29, amended: every request runs esbuild at most once for its module and
\* target, so it is run at most as often as there are requests asking for the
\* pair; the requests that return for the same pair return the same bundle
\* text, which is the text the cache then holds.
C29_SameBundleForAll ==
    /\ \A key \in Packages \X Targets : Count(runs, key) <= Cardinality(Requested(key))
    /\ \A t \in Threads : \A u \in Threads :
          (rcPc[t] = "done" /\ rcPc[u] = "done" /\ rcArgs[t] = rcArgs[u])
          => (/\ rcCode[t] = rcCode[u]
              /\ DHas(bundle_cache, rcArgs[t])
              /\ DGet(bundle_cache, rcArgs[t]) = rcCode[t])

\* C29 witness: two requests for the same module and target both missed the
\* cache, esbuild ran twice, and both returned the same bundle text
C29_Witness ==
    /\ rcPc[1] = "done"
    /\ rcPc[2] = "done"
    /\ rcArgs[1] = rcArgs[2]
    /\ Count(runs, rcArgs[1]) = 2
    /\ Count(hits, rcArgs[1]) = 0
    /\ rcCode[1] = rcCode[2]
    /\ rcCode[1] # <<>>

====
